---- MODULE Spec2Model ----
(***************************************************************************)
(* A model of the LandXML viewer core: the CRS manager (crsManager.js,     *)
(* origin offset and per-file CRS entries), the scene data store           *)
(* (sceneData.js), the surface mesh builder and document parser, and the   *)
(* file handler that wires them to the upload and delete events.           *)
(*                                                                         *)
(* Every function of the program is an operator from the program state w   *)
(* (a record of all module-level variables, the scene graph and the log of *)
(* the running operation) to the state it leaves, so that a handler is the *)
(* composition of the calls it makes, in the order it makes them.          *)
(*                                                                         *)
(* Specifications over the same state:                                     *)
(*   SpecOrigin  the origin functions of crsManager.js, called in any      *)
(*               order with bounded arguments;                             *)
(*   SpecCRS     the per-file CRS functions of crsManager.js;              *)
(*   SpecAPI     every mutating function of crsManager.js with listeners;  *)
(*   SpecStore   removeFile of sceneData.js among the calls of a session;  *)
(*   Spec        the viewer session: the file-uploaded listener and the    *)
(*               delete button of the data tree with its delete callback.  *)
(***************************************************************************)
EXTENDS Integers, Sequences, FiniteSets, TLC

(***************************************************************************)
(* Numbers.  A JavaScript Number is an IEEE-754 binary64 value: every      *)
(* arithmetic result is rounded to nearest, ties to even, to a 53-bit      *)
(* significand.  The model keeps that rounding and shrinks the significand *)
(* to MantBits bits.  A value is an integer count of the smallest positive *)
(* representable number; values below 2^MantBits are exact, above it only  *)
(* multiples of growing powers of two are representable.  NaN is a         *)
(* distinguished value that every operation propagates.                    *)
(***************************************************************************)
MantBits == 3

NaN == -1000000

\* Infinity, above every value of the model; -Infinity is its negation
Infinity == 2000000

RECURSIVE Pow2(_)
Pow2(n) == IF n <= 0 THEN 1 ELSE 2 * Pow2(n - 1)

Abs(v) == IF v < 0 THEN -v ELSE v

RECURSIVE Shift(_, _, _)
\* least s with m / (d * 2^s) < 2^MantBits
Shift(m, d, s) == IF m < Pow2(MantBits) * d * Pow2(s) THEN s ELSE Shift(m, d, s + 1)

\* a / d (d > 0) rounded to nearest representable value, ties to even
RoundQ(a, d) ==
    LET m  == Abs(a)
        s  == Shift(m, d, 0)
        D  == d * Pow2(s)
        q  == m \div D
        r  == m % D
        up == (2 * r > D) \/ (2 * r = D /\ q % 2 = 1)
        mag == (IF up THEN q + 1 ELSE q) * Pow2(s)
    IN  IF a < 0 THEN -mag ELSE mag

Representable(v) == v # NaN /\ RoundQ(v, 1) = v

FAdd(a, b) == IF a = NaN \/ b = NaN THEN NaN ELSE RoundQ(a + b, 1)

FSub(a, b) == IF a = NaN \/ b = NaN THEN NaN ELSE RoundQ(a - b, 1)

\* a / n for a count n >= 0; 0 / 0 is NaN (a / 0 with a # 0 does not arise:
\* the only divisor is the length of the list whose components a sums)
FDiv(a, n) == IF a = NaN \/ n = 0 THEN NaN ELSE RoundQ(a, n)

\* binary32, the element type of Float32Array: fewer significant bits
F32Bits == 2

RECURSIVE ShiftN(_, _, _)
\* least s with m / 2^s < 2^bits
ShiftN(m, bits, s) == IF m < Pow2(bits) * Pow2(s) THEN s ELSE ShiftN(m, bits, s + 1)

\* the binary32 value nearest to a Number, ties to even
Fround(v) ==
    IF v = NaN THEN NaN
    ELSE LET m  == Abs(v)
             D  == Pow2(ShiftN(m, F32Bits, 0))
             q  == m \div D
             r  == m % D
             up == (2 * r > D) \/ (2 * r = D /\ q % 2 = 1)
             mag == (IF up THEN q + 1 ELSE q) * D
         IN  IF v < 0 THEN -mag ELSE mag

\* Math.cos(-Math.PI / 2) is 6.1e-17, not 0: TinyBase + v stands for that
\* cosine times v, a value below every other non-zero value of the model
TinyBase == 3000000
Tiny(v) == IF v = 0 THEN 0 ELSE TinyBase + v
IsTiny(v) == v > TinyBase - 500000 /\ v < TinyBase + 500000

\* the i-th element of a destructured array; a missing element is undefined,
\* which arithmetic coerces to NaN
Comp(p, i) == IF i <= Len(p) THEN p[i] ELSE NaN

(***************************************************************************)
(* State.                                                                  *)
(***************************************************************************)
VARIABLES
    origin,             \* crsManager: Null or [x, y, z] in raw LandXML space
    crsEntries,         \* crsManager: the Map fileKey -> {name, info}, in insertion order
    onChangeCallbacks,  \* crsManager: the registered listeners, in registration order
    files,              \* sceneData: the file entries, in insertion order
    nextFileId,         \* sceneData
    nextObjId,          \* sceneData
    onChange,           \* sceneData: the one store listener, or Null
    scene,              \* THREE.Scene: the meshes that are children of the scene
    meshes,             \* every mesh created so far, by mesh handle
    status,             \* uiController: the status bar text
    dialog,             \* dataTree: the file the open delete confirmation is about, or Null
    confirmDelete,      \* settingsManager: settings.confirmDelete
    held,               \* a caller of getFiles: Null, or the array it was handed
    subscribed,         \* history: the callbacks handed to onStoreChange, in order
    trace,              \* the calls and notifications of the latest operation, in order
    ret,                \* the latest operation: its name, arguments and return value
    resetSeen           \* history: some resetOrigin call has cleared a set origin

vars == <<origin, crsEntries, onChangeCallbacks, files, nextFileId, nextObjId,
          onChange, scene, meshes, status, dialog, confirmDelete, held, subscribed,
          trace, ret, resetSeen>>

crsVars == <<origin, crsEntries, onChangeCallbacks>>
storeVars == <<files, nextFileId, nextObjId, onChange>>
sceneVars == <<scene, meshes>>
uiVars == <<status, dialog, confirmDelete>>

\* JavaScript null / undefined for object-valued and string-valued places
Null == <<>>
null == "null"
undefined == "undefined"

\* const v = ...; body: the value is computed once and named in what follows
Bind(v, Body(_)) == Body(v)

\* an exception is on its way up: exc is <<what threw>> until it is caught
Thrown(w) == w.exc # Null

\* the statement after a call runs only when the call returned
Then(w, Rest(_)) == IF Thrown(w) THEN w ELSE Rest(w)

(***************************************************************************)
(* Bounds and input sets.                                                  *)
(***************************************************************************)
MaxPts == 2          \* longest point list handed to the CRS manager
MaxCallbacks == 2    \* listeners registered through onCRSChange
MaxKeys == 3         \* distinct file keys handed to setCRS / removeCRSForFile
MaxFiles == 3        \* files added in one session (caps nextFileId)
MaxSubs == 2         \* callbacks handed to onStoreChange

SamplePoints == {<<0, 0, 0>>, <<1, 0, 10>>, <<10, 10, 1>>}

RECURSIVE SeqsUpTo(_, _)
SeqsUpTo(S, n) ==
    IF n = 0 THEN {<<>>}
    ELSE LET shorter == SeqsUpTo(S, n - 1)
         IN  shorter \cup {Append(q, e) : q \in shorter, e \in S}

PointLists == SeqsUpTo(SamplePoints, MaxPts)

Callbacks == {"cbA", "cbB"}

FileId(n) == <<"file", n>>
ObjId(n) == <<"obj", n>>
FileKeys == {FileId(n) : n \in 0..(MaxKeys - 1)}

\* CRS attribute objects as xmlParser builds them (a key is present only with a
\* non-empty value), plus one with an empty CRS string
EmptyObj == [k \in {} |-> ""]
CrsInfos == {EmptyObj,
             [k \in {"CRS"} |-> "NAD83"],
             [k \in {"CRS"} |-> "WGS84"],
             [k \in {"Datum"} |-> "D1"],
             [k \in {"CRS"} |-> ""]}

(***************************************************************************)
(* The program state as a value, and the log of the running operation.     *)
(***************************************************************************)
Cur ==
    [origin |-> origin, crsEntries |-> crsEntries, onChangeCallbacks |-> onChangeCallbacks,
     files |-> files, nextFileId |-> nextFileId, nextObjId |-> nextObjId,
     onChange |-> onChange, scene |-> scene, meshes |-> meshes, status |-> status,
     dialog |-> dialog, confirmDelete |-> confirmDelete, held |-> held,
     val |-> <<>>, exc |-> Null, trace |-> <<>>]

IsCall(e, fn) == e.ev = "call" /\ e.fn = fn

CalledIn(tr, fn) == \E i \in 1..Len(tr) : IsCall(tr[i], fn)

\* the entries an array that is no longer the store's array points to: an
\* entry still in the store is the same object, an entry removed is left as
\* it was
Refresh(view, fs) ==
    [i \in 1..Len(view) |->
        IF \E j \in 1..Len(fs) : fs[j].id = view[i].id
        THEN fs[CHOOSE j \in 1..Len(fs) : fs[j].id = view[i].id]
        ELSE view[i]]

\* what the array handed out by getFiles holds after an operation: files.push
\* and the writes to an entry act on it in place, files = files.filter(...)
\* binds the store to a new array and leaves this one behind
TrackHeld(h, w) ==
    IF h = Null THEN Null
    ELSE IF h.live /\ ~CalledIn(w.trace, "removeFile") THEN [h EXCEPT !.view = w.files]
    ELSE [h EXCEPT !.live = FALSE, !.view = Refresh(h.view, w.files)]

\* the callbacks the operation handed to onStoreChange, in call order
RECURSIVE Subscriptions(_, _)
Subscriptions(tr, k) ==
    IF k = 0 THEN <<>>
    ELSE IF IsCall(tr[k], "onStoreChange") THEN Append(Subscriptions(tr, k - 1), tr[k].args[1])
    ELSE Subscriptions(tr, k - 1)

Commit(w) ==
    /\ origin' = w.origin
    /\ crsEntries' = w.crsEntries
    /\ onChangeCallbacks' = w.onChangeCallbacks
    /\ files' = w.files
    /\ nextFileId' = w.nextFileId
    /\ nextObjId' = w.nextObjId
    /\ onChange' = w.onChange
    /\ scene' = w.scene
    /\ meshes' = w.meshes
    /\ status' = w.status
    /\ dialog' = w.dialog
    /\ confirmDelete' = w.confirmDelete
    /\ held' = TrackHeld(w.held, w)
    /\ subscribed' = subscribed \o Subscriptions(w.trace, Len(w.trace))
    /\ trace' = w.trace
    /\ resetSeen' = (resetSeen \/ \E i \in 1..Len(w.trace) :
                        /\ w.trace[i].ev = "call"
                        /\ w.trace[i].fn = "resetOrigin"
                        /\ w.trace[i].hasOrigin)

Log(w, e) == [w EXCEPT !.trace = Append(@, e)]

\* a function is entered: its name, its arguments, and whether the origin is set
\* and how many files are registered at that moment
Call(w, fn, args) ==
    Log(w, [ev |-> "call", fn |-> fn, args |-> args,
            hasOrigin |-> w.origin # Null, nFiles |-> Len(w.files)])

(***************************************************************************)
(* crsManager.js                                                           *)
(***************************************************************************)
\* the index of fileKey in the Map, 0 when absent
RECURSIVE EntryIndex(_, _, _)
EntryIndex(entries, fileKey, i) ==
    IF i > Len(entries) THEN 0
    ELSE IF entries[i].key = fileKey THEN i
    ELSE EntryIndex(entries, fileKey, i + 1)

RemoveAt(q, i) == SubSeq(q, 1, i - 1) \o SubSeq(q, i + 1, Len(q))

\* Map.prototype.set: a new key is appended, an existing key keeps its place
MapSet(entries, fileKey, e) ==
    LET i == EntryIndex(entries, fileKey, 1)
    IN  IF i = 0 THEN Append(entries, e) ELSE [entries EXCEPT ![i] = e]

\* Map.prototype.delete
MapDelete(entries, fileKey) ==
    LET i == EntryIndex(entries, fileKey, 1)
    IN  IF i = 0 THEN entries ELSE RemoveAt(entries, i)

\* info.CRS || null
CrsNameOf(info) ==
    IF "CRS" \in DOMAIN info /\ info["CRS"] # "" THEN info["CRS"] ELSE null

\* mutant: an unnamed entry is not counted as missing
getCRSName_IgnoreMissing(w) ==
    LET entries == w.crsEntries
    IN  IF Len(entries) = 0 THEN null
        ELSE LET names == {entries[i].name : i \in {j \in 1..Len(entries) : entries[j].name # null}}
             IN  IF Cardinality(names) = 0 THEN "No CRS"
                 ELSE IF Cardinality(names) = 1 THEN CHOOSE n \in names : TRUE
                 ELSE "Mixed CRS"

getCRSName(w) ==
    LET entries == w.crsEntries
    IN  IF Len(entries) = 0 THEN null
        ELSE LET names == {entries[i].name : i \in {j \in 1..Len(entries) : entries[j].name # null}}
                 hasMissing == \E i \in 1..Len(entries) : entries[i].name = null
             IN  IF Cardinality(names) = 0 THEN "No CRS"
                 ELSE IF Cardinality(names) = 1 /\ ~hasMissing THEN CHOOSE n \in names : TRUE
                 ELSE "Mixed CRS"

RECURSIVE FirstInfo(_, _)
FirstInfo(entries, i) ==
    IF i > Len(entries) THEN EmptyObj
    ELSE IF DOMAIN entries[i].info # {} THEN entries[i].info
    ELSE FirstInfo(entries, i + 1)

getCRSInfo(w) == FirstInfo(w.crsEntries, 1)

hasOrigin(w) == w.origin # Null

getOrigin(w) ==
    IF w.origin # Null THEN [x |-> w.origin.x, y |-> w.origin.y, z |-> w.origin.z] ELSE Null

getState(w) ==
    [crsName |-> getCRSName(w),
     crsInfo |-> getCRSInfo(w),
     origin |-> getOrigin(w),
     hasOrigin |-> hasOrigin(w)]

\* listeners that throw when they are called
ThrowingCallbacks == {"cbThrows"}

\* the index of the first listener that throws, 0 without one
RECURSIVE FirstThrower(_, _)
FirstThrower(cbs, i) ==
    IF i > Len(cbs) THEN 0
    ELSE IF cbs[i] \in ThrowingCallbacks THEN i
    ELSE FirstThrower(cbs, i + 1)

\* the exception of the listener called last, when it threw
ThrowIf(w, threw) ==
    IF threw
    THEN [w EXCEPT !.exc = <<w.trace[Len(w.trace)].cb>>,
                   !.trace = Append(@, [ev |-> "throw", by |-> w.trace[Len(w.trace)].cb])]
    ELSE w

\* mutant: the listeners are called last registered first
notify_Reversed(w) ==
    LET cbs == w.onChangeCallbacks
        n == Len(cbs)
    IN  [w EXCEPT !.trace =
            @ \o [i \in 1..n |-> [ev |-> "crsNotify", cb |-> cbs[n + 1 - i],
                                   state |-> [crsName |-> getCRSName(w), crsInfo |-> getCRSInfo(w),
                                              origin |-> getOrigin(w), hasOrigin |-> hasOrigin(w)]]]]

\* onChangeCallbacks.forEach(cb => cb(state)): one delivery per registration, in
\* array order, all with the one snapshot taken before the first delivery
\* a listener that throws ends the forEach: the listeners after it are not
\* called and the exception leaves notify
notify(w) ==
    LET state == getState(w)
        cbs == w.onChangeCallbacks
        n == IF FirstThrower(cbs, 1) = 0 THEN Len(cbs) ELSE FirstThrower(cbs, 1)
    IN  ThrowIf([w EXCEPT !.trace =
                    @ \o [i \in 1..n |-> [ev |-> "crsNotify", cb |-> cbs[i], state |-> state]]],
                FirstThrower(cbs, 1) # 0)

onCRSChange(w, cb) ==
    [Call(w, "onCRSChange", <<cb>>) EXCEPT !.onChangeCallbacks = Append(@, cb)]

setCRS(w, fileKey, info) ==
    LET e == [key |-> fileKey, name |-> CrsNameOf(info), info |-> info]
    IN  notify([Call(w, "setCRS", <<fileKey, info>>)
                    EXCEPT !.crsEntries = MapSet(@, fileKey, e)])

removeCRSForFile(w, fileKey) ==
    notify([Call(w, "removeCRSForFile", <<fileKey>>)
                EXCEPT !.crsEntries = MapDelete(@, fileKey)])

\* sx += x over the first k points, left to right
RECURSIVE SumAxis(_, _, _)
SumAxis(rawPoints, axis, k) ==
    IF k = 0 THEN 0
    ELSE FAdd(SumAxis(rawPoints, axis, k - 1), Comp(rawPoints[k], axis))

Centroid(rawPoints) ==
    LET n == Len(rawPoints)
    IN  [x |-> FDiv(SumAxis(rawPoints, 1, n), n),
         y |-> FDiv(SumAxis(rawPoints, 2, n), n),
         z |-> FDiv(SumAxis(rawPoints, 3, n), n)]

\* mutant: the "already set" early return is missing (last call wins)
initOriginFromPoints_LastWins(w, rawPoints) ==
    LET c == Call(w, "initOriginFromPoints", <<rawPoints>>)
    IN  IF Len(rawPoints) = 0 THEN c
        ELSE notify([c EXCEPT !.origin = Centroid(rawPoints)])

initOriginFromPoints(w, rawPoints) ==
    LET c == Call(w, "initOriginFromPoints", <<rawPoints>>)
    IN  IF w.origin # Null THEN c
        ELSE IF Len(rawPoints) = 0 THEN c
        ELSE notify([c EXCEPT !.origin = Centroid(rawPoints)])

\* mutant: the reset keeps the old origin
resetOrigin_Keep(w) == notify(Call(w, "resetOrigin", <<>>))

resetOrigin(w) ==
    notify([Call(w, "resetOrigin", <<>>) EXCEPT !.origin = Null])

\* mutant: the offset is applied to the first axis only
applyOffset_XOnly(w, x, y, z) ==
    IF w.origin = Null THEN <<x, y, z>>
    ELSE <<FSub(x, w.origin.x), y, z>>

applyOffset(w, x, y, z) ==
    IF w.origin = Null THEN <<x, y, z>>
    ELSE <<FSub(x, w.origin.x), FSub(y, w.origin.y), FSub(z, w.origin.z)>>

\* mutant: the origin is subtracted again instead of added back
toWorldCoords_Subtract(w, sx, sy, sz) ==
    IF w.origin = Null THEN [x |-> sx, y |-> sy, z |-> sz]
    ELSE [x |-> FSub(sx, w.origin.x), y |-> FSub(sy, w.origin.y), z |-> FSub(sz, w.origin.z)]

toWorldCoords(w, sx, sy, sz) ==
    IF w.origin = Null THEN [x |-> sx, y |-> sy, z |-> sz]
    ELSE [x |-> FAdd(sx, w.origin.x), y |-> FAdd(sy, w.origin.y), z |-> FAdd(sz, w.origin.z)]

(***************************************************************************)
(* XMLtoThree_Surface.js.  Text content is a sequence of characters.       *)
(***************************************************************************)
IsSpace(c) == c = " "
Digits == <<"0", "1", "2", "3", "4", "5", "6", "7", "8", "9">>
IsDigit(c) == \E d \in 1..10 : Digits[d] = c
DigitVal(c) == (CHOOSE d \in 1..10 : Digits[d] = c) - 1

RECURSIVE TrimStart(_)
TrimStart(t) == IF t # <<>> /\ IsSpace(Head(t)) THEN TrimStart(Tail(t)) ELSE t

RECURSIVE TrimEnd(_)
TrimEnd(t) ==
    IF t # <<>> /\ IsSpace(t[Len(t)]) THEN TrimEnd(SubSeq(t, 1, Len(t) - 1)) ELSE t

\* String.prototype.trim
Trim(t) == TrimEnd(TrimStart(t))

\* split(/\s+/) of a text: cur is the token being read, acc the tokens read
RECURSIVE SplitWS(_, _, _)
SplitWS(t, cur, acc) ==
    IF t = <<>> THEN Append(acc, cur)
    ELSE IF IsSpace(Head(t)) THEN SplitWS(TrimStart(t), <<>>, Append(acc, cur))
    ELSE SplitWS(Tail(t), Append(cur, Head(t)), acc)

\* text.trim().split(/\s+/): the empty text gives one empty token
Tokens(t) == SplitWS(Trim(t), <<>>, <<>>)

RECURSIVE Dec(_)
Dec(tok) == IF tok = <<>> THEN 0 ELSE 10 * Dec(SubSeq(tok, 1, Len(tok) - 1)) + DigitVal(tok[Len(tok)])

AllDigits(tok) == tok # <<>> /\ \A i \in 1..Len(tok) : IsDigit(tok[i])

\* Number(token) for the tokens of the model: the empty string is 0, a decimal
\* integer is the Number nearest to it, anything else is NaN
Number(tok) ==
    IF tok = <<>> THEN 0
    ELSE IF AllDigits(tok) THEN RoundQ(Dec(tok), 1)
    ELSE IF Head(tok) = "-" /\ AllDigits(Tail(tok)) THEN RoundQ(-Dec(Tail(tok)), 1)
    ELSE NaN

\* .map(Number)
NumbersOf(toks) == [i \in 1..Len(toks) |-> Number(toks[i])]

\* mutant: a point of two tokens is left with two components
PushZero_Never(parts) == parts

\* if (parts.length === 2) parts.push(0)
PushZero(parts) == IF Len(parts) = 2 THEN Append(parts, 0) ELSE parts

\* if (parts.some(isNaN)) return null; return parts
NullIfSomeNaN(parts) == IF \E i \in 1..Len(parts) : parts[i] = NaN THEN Null ELSE parts

parseCoords(text) == NullIfSomeNaN(PushZero(NumbersOf(Tokens(text))))

\* an element's attribute: null when absent
getAttribute(el, a) == IF a \in DOMAIN el.attrs THEN el.attrs[a] ELSE null
Truthy(v) == v # null /\ v # ""
OrElse(v, d) == IF Truthy(v) THEN v ELSE d

\* a display name: <<s>> for a given string s, or the parts of a template
\* string such as `Surface ${i + 1}`
NameOr(v, parts) == IF Truthy(v) THEN <<v>> ELSE parts

\* the P nodes whose text parses, in document order
\* if (!coordsArr) return; otherwise the node's id with its coordinates
PushValid(rest, id, coordsArr) ==
    IF coordsArr = Null THEN rest ELSE Append(rest, [key |-> id, coords |-> coordsArr])

RECURSIVE ValidPoints(_, _)
ValidPoints(P, k) ==
    IF k = 0 THEN <<>>
    ELSE PushValid(ValidPoints(P, k - 1), P[k].id, parseCoords(P[k].text))

\* mutant: an id that is already in the table keeps its first coordinates
RECURSIVE BuildPointsMap_FirstWins(_, _)
BuildPointsMap_FirstWins(valid, k) ==
    IF k = 0 THEN <<>>
    ELSE IF EntryIndex(BuildPointsMap_FirstWins(valid, k - 1), valid[k].key, 1) # 0
         THEN BuildPointsMap_FirstWins(valid, k - 1)
         ELSE Append(BuildPointsMap_FirstWins(valid, k - 1), valid[k])

\* pointsMap.set(id, coordsArr) for every valid point
RECURSIVE BuildPointsMap(_, _)
BuildPointsMap(valid, k) ==
    IF k = 0 THEN <<>>
    ELSE MapSet(BuildPointsMap(valid, k - 1), valid[k].key, valid[k])

\* pointsMap.get(id): undefined (Null) when absent
MapGet(pointsMap, id) ==
    LET i == EntryIndex(pointsMap, id, 1)
    IN  IF i = 0 THEN Null ELSE pointsMap[i].coords

\* rawPoints: the coordinates of the valid points, in document order
CoordsOf(valid) == [i \in 1..Len(valid) |-> valid[i].coords]

RawPointsOf(surfaceNode) == CoordsOf(ValidPoints(surfaceNode.P, Len(surfaceNode.P)))

\* vertexArray.push(x - cx, y - cy, z - cz)
Relative(p, c) == <<FSub(Comp(p, 1), c.x), FSub(Comp(p, 2), c.y), FSub(Comp(p, 3), c.z)>>

\* if (coords.includes(undefined)) return; coords.forEach(...)
PushTriangle(coords, c) ==
    IF \E j \in 1..3 : coords[j] = Null THEN <<>>
    ELSE Relative(coords[1], c) \o Relative(coords[2], c) \o Relative(coords[3], c)

\* if (ids.length !== 3) return; coords = ids.map(id => pointsMap.get(id))
FaceOfIds(pointsMap, ids, c) ==
    IF Len(ids) # 3 THEN <<>>
    ELSE PushTriangle([j \in 1..3 |-> MapGet(pointsMap, ids[j])], c)

\* mutant: the invisible flag is not looked at
FaceVertices_KeepInvisible(pointsMap, F, c) == FaceOfIds(pointsMap, Tokens(F.text), c)

\* the nine components one face pushes, or none when the face is skipped
FaceVertices(pointsMap, F, c) ==
    IF getAttribute(F, "i") = "1" THEN <<>>
    ELSE FaceOfIds(pointsMap, Tokens(F.text), c)

RECURSIVE CollectFaces(_, _, _, _)
CollectFaces(pointsMap, F, c, k) ==
    IF k = 0 THEN <<>>
    ELSE CollectFaces(pointsMap, F, c, k - 1) \o FaceVertices(pointsMap, F[k], c)

\* new Float32Array(vertexArray)
Float32Array(vertexArray) == [i \in 1..Len(vertexArray) |-> Fround(vertexArray[i])]

\* the k-th vertex of a position array
Vertex(positions, k) == <<positions[3 * k - 2], positions[3 * k - 1], positions[3 * k]>>

\* the position array of a function from vertex triples to vertex triples
MapVertices(positions, T(_)) ==
    [i \in 1..Len(positions) |-> T(Vertex(positions, (i + 2) \div 3))[((i - 1) % 3) + 1]]

SomeNaN(v) == \E j \in 1..3 : v[j] = NaN

\* cos * small + main, with cos = Math.cos(-Math.PI / 2)
CosTimesPlus(small, main) == IF main # 0 THEN main ELSE Tiny(small)

\* Matrix4.makeRotationX(-PI / 2) applied to a vertex: every row of the
\* matrix multiplies all three components, so one NaN makes three
RotateVertex(v) ==
    IF SomeNaN(v) THEN <<NaN, NaN, NaN>>
    ELSE <<v[1], CosTimesPlus(v[2], v[3]), CosTimesPlus(v[3], -v[2])>>

\* geometry.rotateX(-Math.PI / 2)
rotateX(positions) == MapVertices(positions, RotateVertex)

Negate(c) == IF IsTiny(c) THEN Tiny(-(c - TinyBase)) ELSE -c

ScaleVertex(v) == IF SomeNaN(v) THEN <<NaN, NaN, NaN>> ELSE <<v[1], v[2], Negate(v[3])>>

\* geometry.scale(1, 1, -1)
scale(positions) == MapVertices(positions, ScaleVertex)

\* getOrigin() || {x: 0, y: 0, z: 0}
OriginOrZero(w) == IF getOrigin(w) # Null THEN getOrigin(w) ELSE [x |-> 0, y |-> 0, z |-> 0]

\* mutant: the offset is set as (dx, dy, dz), without the remap of the geometry
PositionOf_Unswapped(c, o) == <<FSub(c.x, o.x), FSub(c.y, o.y), FSub(c.z, o.z)>>

\* mesh.position.set(dx, dz, dy)
PositionOf(c, o) == <<FSub(c.x, o.x), FSub(c.z, o.z), FSub(c.y, o.y)>>

\* mutant: the placement is computed from the origin as it was on entry,
\* before the surface's points were offered as origin candidate
createSurfaceMesh_PlaceFirst(w, surfaceNode, surfaceIndex) ==
    Bind(ValidPoints(surfaceNode.P, Len(surfaceNode.P)), LAMBDA valid :
    Bind(initOriginFromPoints(Call(w, "createSurfaceMesh", <<surfaceIndex>>), CoordsOf(valid)),
         LAMBDA w0 :
    Then(w0, LAMBDA w1 :
    Bind(Centroid(CoordsOf(valid)), LAMBDA c :
    Bind(CollectFaces(BuildPointsMap(valid, Len(valid)), surfaceNode.F, c, Len(surfaceNode.F)),
         LAMBDA vertexArray :
        [w1 EXCEPT !.meshes = Append(@,
            [name |-> NameOr(getAttribute(surfaceNode, "name"), <<"LandXML_Surface">>),
             visible |-> TRUE,
             vertexArray |-> vertexArray,
             positions |-> scale(rotateX(Float32Array(vertexArray))),
             polygonOffsetFactor |-> surfaceIndex,
             polygonOffsetUnits |-> surfaceIndex,
             position |-> PositionOf(c, OriginOrZero(w)),
             geometryDisposed |-> FALSE,
             materialDisposed |-> FALSE])])))))

\* the mesh is appended to w.meshes; its handle is its index there
createSurfaceMesh(w, surfaceNode, surfaceIndex) ==
    Bind(ValidPoints(surfaceNode.P, Len(surfaceNode.P)), LAMBDA valid :
    Bind(initOriginFromPoints(Call(w, "createSurfaceMesh", <<surfaceIndex>>), CoordsOf(valid)),
         LAMBDA w0 :
    Then(w0, LAMBDA w1 :
    Bind(Centroid(CoordsOf(valid)), LAMBDA c :
    Bind(CollectFaces(BuildPointsMap(valid, Len(valid)), surfaceNode.F, c, Len(surfaceNode.F)),
         LAMBDA vertexArray :
        [w1 EXCEPT !.meshes = Append(@,
            [name |-> NameOr(getAttribute(surfaceNode, "name"), <<"LandXML_Surface">>),
             visible |-> TRUE,
             vertexArray |-> vertexArray,
             positions |-> scale(rotateX(Float32Array(vertexArray))),
             polygonOffsetFactor |-> surfaceIndex,
             polygonOffsetUnits |-> surfaceIndex,
             position |-> PositionOf(c, OriginOrZero(w1)),
             geometryDisposed |-> FALSE,
             materialDisposed |-> FALSE])])))))

(***************************************************************************)
(* crsManager.js: computeWorldBBox                                         *)
(***************************************************************************)
\* if (v < min) min = v, over the first k points, from Infinity; a comparison
\* with NaN is false
\* mutant: the running minimum starts from 0
RECURSIVE MinAxis_FromZero(_, _, _)
MinAxis_FromZero(rawPoints, axis, k) ==
    IF k = 0 THEN 0
    ELSE LET m == MinAxis_FromZero(rawPoints, axis, k - 1)
             v == Comp(rawPoints[k], axis)
         IN  IF v # NaN /\ v < m THEN v ELSE m

RECURSIVE MinAxis(_, _, _)
MinAxis(rawPoints, axis, k) ==
    IF k = 0 THEN Infinity
    ELSE LET m == MinAxis(rawPoints, axis, k - 1)
             v == Comp(rawPoints[k], axis)
         IN  IF v # NaN /\ v < m THEN v ELSE m

RECURSIVE MaxAxis(_, _, _)
MaxAxis(rawPoints, axis, k) ==
    IF k = 0 THEN -Infinity
    ELSE LET m == MaxAxis(rawPoints, axis, k - 1)
             v == Comp(rawPoints[k], axis)
         IN  IF v # NaN /\ v > m THEN v ELSE m

\* (min + max) / 2; Infinity + -Infinity is NaN
Mid(lo, hi) == IF lo = Infinity \/ hi = -Infinity THEN NaN ELSE FDiv(FAdd(lo, hi), 2)

\* mutant: no early return for an empty list
computeWorldBBox_NoEmptyCheck(rawPoints) ==
    [min |-> [x |-> MinAxis(rawPoints, 1, Len(rawPoints)),
              y |-> MinAxis(rawPoints, 2, Len(rawPoints)),
              z |-> MinAxis(rawPoints, 3, Len(rawPoints))],
     max |-> [x |-> MaxAxis(rawPoints, 1, Len(rawPoints)),
              y |-> MaxAxis(rawPoints, 2, Len(rawPoints)),
              z |-> MaxAxis(rawPoints, 3, Len(rawPoints))],
     centroid |-> [x |-> NaN, y |-> NaN, z |-> NaN]]

computeWorldBBox(rawPoints) ==
    LET n == Len(rawPoints)
        lo(a) == MinAxis(rawPoints, a, n)
        hi(a) == MaxAxis(rawPoints, a, n)
    IN  IF n = 0 THEN Null
        ELSE [min |-> [x |-> lo(1), y |-> lo(2), z |-> lo(3)],
              max |-> [x |-> hi(1), y |-> hi(2), z |-> hi(3)],
              centroid |-> [x |-> Mid(lo(1), hi(1)), y |-> Mid(lo(2), hi(2)), z |-> Mid(lo(3), hi(3))]]

(***************************************************************************)
(* xmlParser.js                                                            *)
(***************************************************************************)
\* obj[key] = val
Put(obj, key, val) == [k \in DOMAIN obj \cup {key} |-> IF k = key THEN val ELSE obj[k]]

\* mutant: the key is set whenever the element is there
PutAttr_Always(obj, key, el, a) ==
    IF el # Null THEN Put(obj, key, getAttribute(el, a)) ELSE obj

\* if (el.getAttribute(a)) obj[key] = el.getAttribute(a), for an element that
\* may be missing
PutAttr(obj, key, el, a) ==
    IF el # Null /\ Truthy(getAttribute(el, a)) THEN Put(obj, key, getAttribute(el, a)) ELSE obj

\* [a, b].filter(Boolean).join(' ') as the list of the joined parts
JoinParts(a, b) == SelectSeq(<<a, b>>, LAMBDA v : v # "")

\* if (a || b) obj[key] = [a, b].filter(Boolean).join(' ')
PutJoined(obj, key, el, a, b) ==
    LET va == OrElse(getAttribute(el, a), "")
        vb == OrElse(getAttribute(el, b), "")
    IN  IF va # "" \/ vb # "" THEN Put(obj, key, JoinParts(va, vb)) ELSE obj

FileMetaOf(xmlDoc) ==
    LET m1 == PutAttr(EmptyObj, "LandXML Version", xmlDoc.root, "version")
        m2 == PutJoined(m1, "Date", xmlDoc.root, "date", "time")
        m3 == PutAttr(m2, "CRS", xmlDoc.crs, "desc")
        m4 == PutAttr(m3, "Horizontal Datum", xmlDoc.crs, "horizontalDatum")
        m5 == PutAttr(m4, "Vertical Datum", xmlDoc.crs, "verticalDatum")
        m6 == PutAttr(m5, "Datum", xmlDoc.crs, "datum")
        m7 == PutAttr(m6, "Coordinate System", xmlDoc.crs, "horizontalCoordinateSystemName")
        m8 == PutAttr(m7, "Rotation Angle", xmlDoc.crs, "rotationAngle")
        m9 == PutAttr(m8, "Source Path", xmlDoc.project, "name")
        m10 == PutAttr(m9, "Project Desc", xmlDoc.project, "desc")
        m11 == IF xmlDoc.app # Null THEN PutJoined(m10, "Application", xmlDoc.app, "name", "version")
               ELSE m10
        m12 == PutAttr(m11, "Linear Unit", xmlDoc.units, "linearUnit")
        m13 == PutAttr(m12, "Area Unit", xmlDoc.units, "areaUnit")
        m14 == PutAttr(m13, "Volume Unit", xmlDoc.units, "volumeUnit")
    IN  PutAttr(m14, "Angular Unit", xmlDoc.units, "angularUnit")

\* if (fileMeta[key]) crsAttrs[attr] = fileMeta[key]
CopyKey(obj, attr, fileMeta, key) ==
    IF key \in DOMAIN fileMeta /\ Truthy(fileMeta[key]) THEN Put(obj, attr, fileMeta[key]) ELSE obj

CrsAttrsOf(fileMeta) ==
    LET a1 == CopyKey(EmptyObj, "CRS", fileMeta, "CRS")
        a2 == CopyKey(a1, "Horizontal Datum", fileMeta, "Horizontal Datum")
        a3 == CopyKey(a2, "Vertical Datum", fileMeta, "Vertical Datum")
        a4 == CopyKey(a3, "Datum", fileMeta, "Datum")
    IN  CopyKey(a4, "Coordinate System", fileMeta, "Coordinate System")

\* `${lo.toFixed(2)} - ${hi.toFixed(2)}` as the pair of formatted numbers
Range(lo, hi) == <<"toFixed(2)", lo, hi>>

\* {...bboxMeta}: the three ranges when the surface has a bounding box
WithBBoxMeta(base, bbox) ==
    IF bbox = Null THEN base
    ELSE Put(Put(Put(base, "Easting Range", Range(bbox.min.y, bbox.max.y)),
                 "Northing Range", Range(bbox.min.x, bbox.max.x)),
             "Elevation Range", Range(bbox.min.z, bbox.max.z))

\* mesh.geometry.attributes.position.count
PositionCount(w, h) == Len(w.meshes[h].vertexArray) \div 3

\* the object pushed for surface i (0-based), whose mesh has handle h
SurfaceObject(w, surfaceNode, i, h) ==
    [mesh |-> h,
     type |-> "Surface",
     name |-> NameOr(getAttribute(surfaceNode, "name"), <<"Surface", " ", i + 1>>),
     metadata |->
        WithBBoxMeta(
            [k \in {"description", "Surface Type", "vertices", "triangles"} |->
                CASE k = "description" -> <<OrElse(getAttribute(surfaceNode, "desc"), "")>>
                  [] k = "Surface Type" -> <<OrElse(getAttribute(surfaceNode, "surfType"), "")>>
                  [] k = "vertices" -> <<PositionCount(w, h)>>
                  [] k = "triangles" -> <<PositionCount(w, h) \div 3>>],
            computeWorldBBox(RawPointsOf(surfaceNode)))]

\* mesh.name = name
\* mutant: the loader puts each mesh into the scene as soon as it is made
RenameLast_IntoScene(w, name) ==
    [w EXCEPT !.meshes[Len(w.meshes)].name = name, !.scene = @ \cup {Len(w.meshes)}]

RenameLast(w, name) == [w EXCEPT !.meshes[Len(w.meshes)].name = name]

\* the forEach callback for the surface of index i, on the state and the
\* objects the earlier surfaces left
SurfaceStep(prev, surfaceNode, i) ==
    IF Thrown(prev.w) THEN prev
    ELSE Bind(createSurfaceMesh(prev.w, surfaceNode, i), LAMBDA w1 :
        IF Thrown(w1) THEN [w |-> w1, objects |-> prev.objects]
        ELSE Bind(RenameLast(w1, NameOr(getAttribute(surfaceNode, "name"),
                                        <<"Surface", " ", i + 1>>)),
                  LAMBDA w2 :
            [w |-> w2,
             objects |-> Append(prev.objects,
                                SurfaceObject(w2, surfaceNode, i, Len(w2.meshes)))]))

\* xmlDoc.querySelectorAll("Surface").forEach(...) over the first k surfaces:
\* the state left and the objects pushed
RECURSIVE ParseSurfaces(_, _, _)
ParseSurfaces(w, surfaces, k) ==
    IF k = 0 THEN [w |-> w, objects |-> <<>>]
    ELSE SurfaceStep(ParseSurfaces(w, surfaces, k - 1), surfaces[k], k - 1)

\* the state left by the call and its result {fileMeta, objects, crsAttrs}
loadLandXML(w, xmlDoc, fileName) ==
    Bind(FileMetaOf(xmlDoc), LAMBDA fileMeta :
    Bind(ParseSurfaces(Call(w, "loadLandXML", <<fileName>>), xmlDoc.surfaces,
                       Len(xmlDoc.surfaces)), LAMBDA parsed :
        [w |-> Then(parsed.w, LAMBDA w1 : Log(w1, [ev |-> "return", fn |-> "loadLandXML"])),
         fileMeta |-> fileMeta,
         objects |-> parsed.objects,
         crsAttrs |-> CrsAttrsOf(fileMeta)]))

(***************************************************************************)
(* The LandXML documents the viewer is given, as DOMParser hands them to   *)
(* loadLandXML: the attributes of the elements the loader queries, and the *)
(* P and F nodes of each Surface with their text content.                  *)
(***************************************************************************)
NoAttrs == [attrs |-> EmptyObj]
PNode(id, text) == [id |-> id, text |-> text]
FNode(attrs, text) == [attrs |-> attrs, text |-> text]

\* one named surface, three points, one face; a named CRS
DocA ==
    [root |-> [attrs |-> ("version" :> "1.2")],
     crs |-> [attrs |-> ("desc" :> "NAD83")],
     project |-> [attrs |-> ("name" :> "site")],
     app |-> Null,
     units |-> Null,
     surfaces |-> <<
        [attrs |-> ("name" :> "EG" @@ "surfType" :> "TIN"),
         P |-> << PNode(<<"1">>, <<"1", " ", "0", " ", "1", "0">>),
                  PNode(<<"2">>, <<"1", "0", " ", "1", "0", " ", "1">>),
                  PNode(<<"3">>, <<"0", " ", "0", " ", "0">>) >>,
         F |-> << FNode(EmptyObj, <<"1", " ", "2", " ", "3">>) >>] >>]

\* no Surface element and no CoordinateSystem element
DocB ==
    [root |-> [attrs |-> ("date" :> "2024-01-01")],
     crs |-> Null,
     project |-> Null,
     app |-> [attrs |-> ("name" :> "Civil")],
     units |-> [attrs |-> ("linearUnit" :> "meter")],
     surfaces |-> <<>>]

\* an unnamed surface none of whose points parses, then a surface with a
\* two-token point and an invisible face; a CRS without a desc
DocC ==
    [root |-> NoAttrs,
     crs |-> [attrs |-> ("horizontalDatum" :> "D1")],
     project |-> Null,
     app |-> Null,
     units |-> Null,
     surfaces |-> <<
        [attrs |-> EmptyObj,
         P |-> << PNode(<<"1">>, <<"x">>) >>,
         F |-> << FNode(EmptyObj, <<"1", " ", "1", " ", "1">>) >>],
        [attrs |-> ("name" :> "FG"),
         P |-> << PNode(<<"1">>, <<"1", "0", " ", "2">>),
                  PNode(<<"2">>, <<"2", " ", "1", "0", " ", "4">>) >>,
         F |-> << FNode(("i" :> "1"), <<"1", " ", "2", " ", "1">>),
                  FNode(EmptyObj, <<"1", " ", "2", " ", "2">>) >>] >>]

DocNames == {"a.xml", "b.xml", "c.xml"}
DocOf(name) == CASE name = "a.xml" -> DocA [] name = "b.xml" -> DocB [] name = "c.xml" -> DocC

\* what DOMParser makes of text that is not well-formed: it does not throw; it
\* returns a document whose root is a parsererror element, or (the browsers
\* differ) the elements it read before the error with a parsererror element
\* among them
DocParserError ==
    [root |-> NoAttrs,
     crs |-> Null,
     project |-> Null,
     app |-> Null,
     units |-> Null,
     surfaces |-> <<>>]

\* the text of a.xml cut off after its second point
DocTruncated ==
    [root |-> [attrs |-> ("version" :> "1.2")],
     crs |-> [attrs |-> ("desc" :> "NAD83")],
     project |-> [attrs |-> ("name" :> "site")],
     app |-> Null,
     units |-> Null,
     surfaces |-> <<
        [attrs |-> ("name" :> "EG" @@ "surfType" :> "TIN"),
         P |-> << PNode(<<"1">>, <<"1", " ", "0", " ", "1", "0">>),
                  PNode(<<"2">>, <<"1", "0", " ", "1", "0", " ", "1">>) >>,
         F |-> << >>] >>]

\* uploads whose text is not well-formed
MalformedNames == {"bad.xml"}

\* parser.parseFromString(xmlString, "application/xml") for the text of an upload
parseFromString(name) ==
    IF name \in MalformedNames THEN {DocParserError, DocTruncated} ELSE {DocOf(name)}

(***************************************************************************)
(* sceneData.js                                                            *)
(***************************************************************************)
\* if (onChange) onChange(files)
storeNotify(w) ==
    IF w.onChange # null
    THEN Log(w, [ev |-> "storeNotify", cb |-> w.onChange, files |-> w.files])
    ELSE w

onStoreChange(w, cb) == [Call(w, "onStoreChange", <<cb>>) EXCEPT !.onChange = cb]

\* the index of the group of a type in a file entry's groups, 0 when absent
RECURSIVE GroupIndex(_, _, _)
GroupIndex(groups, type, i) ==
    IF i > Len(groups) THEN 0
    ELSE IF groups[i].type = type THEN i
    ELSE GroupIndex(groups, type, i + 1)

FalsyName(n) == n = <<>> \/ n = <<"">>

\* mutant: the default name counts the entries already in the group
PushObject_ZeroBased(w, groups, obj, objId) ==
    LET type == IF obj.type # "" THEN obj.type ELSE "Other"
        g == GroupIndex(groups, type, 1)
        groups1 == IF g = 0 THEN Append(groups, [type |-> type, objects |-> <<>>]) ELSE groups
        gi == IF g = 0 THEN Len(groups1) ELSE g
        meshName == IF obj.mesh # 0 THEN w.meshes[obj.mesh].name ELSE <<>>
        entry == [id |-> objId,
                  name |-> IF ~FalsyName(obj.name) THEN obj.name
                           ELSE IF ~FalsyName(meshName) THEN meshName
                           ELSE <<type, " ", Len(groups1[gi].objects)>>,
                  mesh |-> obj.mesh,
                  metadata |-> obj.metadata,
                  visible |-> TRUE]
    IN  [groups1 EXCEPT ![gi].objects = Append(@, entry)]

\* the body of the for loop of addFile for one object: the groups with the
\* entry pushed, given the id the entry gets
PushObject(w, groups, obj, objId) ==
    LET type == IF obj.type # "" THEN obj.type ELSE "Other"
        g == GroupIndex(groups, type, 1)
        groups1 == IF g = 0 THEN Append(groups, [type |-> type, objects |-> <<>>]) ELSE groups
        gi == IF g = 0 THEN Len(groups1) ELSE g
        meshName == IF obj.mesh # 0 THEN w.meshes[obj.mesh].name ELSE <<>>
        entry == [id |-> objId,
                  name |-> IF ~FalsyName(obj.name) THEN obj.name
                           ELSE IF ~FalsyName(meshName) THEN meshName
                           ELSE <<type, " ", Len(groups1[gi].objects) + 1>>,
                  mesh |-> obj.mesh,
                  metadata |-> obj.metadata,
                  visible |-> TRUE]
    IN  [groups1 EXCEPT ![gi].objects = Append(@, entry)]

RECURSIVE BuildGroups(_, _, _, _)
BuildGroups(w, objects, firstObjId, k) ==
    IF k = 0 THEN <<>>
    ELSE PushObject(w, BuildGroups(w, objects, firstObjId, k - 1), objects[k],
                    ObjId(firstObjId + k - 1))

\* mutant: the listener is told before the entry is pushed
addFile_NotifyFirst(w, fileName, objects, fileMeta) ==
    LET c == storeNotify(Call(w, "addFile", <<fileName>>))
        fileEntry == [id |-> FileId(w.nextFileId),
                      name |-> fileName,
                      metadata |-> fileMeta,
                      groups |-> BuildGroups(w, objects, w.nextObjId, Len(objects))]
    IN  [c EXCEPT !.nextFileId = @ + 1,
                  !.nextObjId = @ + Len(objects),
                  !.files = Append(@, fileEntry)]

\* mutant: the object counter advances once per file, not once per object
addFile_CountFiles(w, fileName, objects, fileMeta) ==
    LET c == Call(w, "addFile", <<fileName>>)
        fileEntry == [id |-> FileId(w.nextFileId),
                      name |-> fileName,
                      metadata |-> fileMeta,
                      groups |-> BuildGroups(w, objects, w.nextObjId, Len(objects))]
    IN  storeNotify([c EXCEPT !.nextFileId = @ + 1,
                              !.nextObjId = @ + 1,
                              !.files = Append(@, fileEntry)])

\* the file entry returned is the last of the files of the state left
addFile(w, fileName, objects, fileMeta) ==
    LET c == Call(w, "addFile", <<fileName>>)
        fileEntry == [id |-> FileId(w.nextFileId),
                      name |-> fileName,
                      metadata |-> fileMeta,
                      groups |-> BuildGroups(w, objects, w.nextObjId, Len(objects))]
    IN  storeNotify([c EXCEPT !.nextFileId = @ + 1,
                              !.nextObjId = @ + Len(objects),
                              !.files = Append(@, fileEntry)])

\* mutant: the last file also takes the origin with it
removeFile_AutoReset(w, fileId) ==
    LET c == Call(w, "removeFile", <<fileId>>)
        rest == SelectSeq(w.files, LAMBDA f : f.id # fileId)
    IN  storeNotify([c EXCEPT !.files = rest,
                              !.origin = IF rest = <<>> THEN Null ELSE @])

\* mutant: nothing is done, and nobody is told, when the id is not registered
removeFile_QuietWhenUnknown(w, fileId) ==
    LET c == Call(w, "removeFile", <<fileId>>)
    IN  IF \A i \in 1..Len(w.files) : w.files[i].id # fileId THEN c
        ELSE storeNotify([c EXCEPT !.files = SelectSeq(@, LAMBDA f : f.id # fileId)])

removeFile(w, fileId) ==
    LET c == Call(w, "removeFile", <<fileId>>)
    IN  storeNotify([c EXCEPT !.files = SelectSeq(@, LAMBDA f : f.id # fileId)])

findFile(w, fileId) ==
    LET hits == SelectSeq(w.files, LAMBDA f : f.id = fileId)
    IN  IF hits = <<>> THEN Null ELSE hits[1]

getFiles(w) == w.files

\* the object entries of a file entry, group by group
RECURSIVE ObjectsOfGroups(_, _)
ObjectsOfGroups(groups, k) ==
    IF k = 0 THEN <<>> ELSE ObjectsOfGroups(groups, k - 1) \o groups[k].objects

ObjectsOf(file) == ObjectsOfGroups(file.groups, Len(file.groups))

\* the places <<file, group, object>> of the store where an entry has the id
ObjectPaths(fs, objId) ==
    UNION {UNION {{<<fi, gi, oi>> : oi \in {o \in 1..Len(fs[fi].groups[gi].objects) :
                                               fs[fi].groups[gi].objects[o].id = objId}} :
                  gi \in 1..Len(fs[fi].groups)} :
           fi \in 1..Len(fs)}

Before(p, q) ==
    \/ p[1] < q[1]
    \/ p[1] = q[1] /\ p[2] < q[2]
    \/ p[1] = q[1] /\ p[2] = q[2] /\ p[3] <= q[3]

\* the first place the loops of findObject come to, <<>> when there is none
ObjectPath(fs, objId) ==
    IF ObjectPaths(fs, objId) = {} THEN <<>>
    ELSE CHOOSE p \in ObjectPaths(fs, objId) : \A q \in ObjectPaths(fs, objId) : Before(p, q)

EntryAt(fs, p) == fs[p[1]].groups[p[2]].objects[p[3]]

\* mutant: only the first file is searched
findObject_FirstFile(w, objId) ==
    IF ObjectPath(w.files, objId) = <<>> \/ ObjectPath(w.files, objId)[1] # 1 THEN Null
    ELSE EntryAt(w.files, ObjectPath(w.files, objId))

findObject(w, objId) ==
    IF ObjectPath(w.files, objId) = <<>> THEN Null
    ELSE EntryAt(w.files, ObjectPath(w.files, objId))

\* mutant: the mesh is left as it was
ToggleAt_SkipMesh(c, p, flag) ==
    [storeNotify([c EXCEPT !.files[p[1]].groups[p[2]].objects[p[3]].visible = flag])
        EXCEPT !.val = <<flag>>]

\* obj.visible = !obj.visible; if (obj.mesh) obj.mesh.visible = obj.visible;
\* notify(); return obj.visible
ToggleAt(c, p, flag) ==
    [storeNotify([c EXCEPT !.files[p[1]].groups[p[2]].objects[p[3]].visible = flag,
                           !.meshes = IF EntryAt(c.files, p).mesh # 0
                                      THEN [@ EXCEPT ![EntryAt(c.files, p).mesh].visible = flag]
                                      ELSE @])
        EXCEPT !.val = <<flag>>]

\* mutant: the listener is told of a call for an unknown id too
toggleVisibility_NotifyAlways(w, objId) ==
    IF findObject(w, objId) = Null
    THEN [storeNotify(Call(w, "toggleVisibility", <<objId>>)) EXCEPT !.val = <<>>]
    ELSE ToggleAt(Call(w, "toggleVisibility", <<objId>>), ObjectPath(w.files, objId),
                  ~findObject(w, objId).visible)

\* the value returned is left in val: <<flag>>, or <<>> for undefined
toggleVisibility(w, objId) ==
    IF findObject(w, objId) = Null
    THEN [Call(w, "toggleVisibility", <<objId>>) EXCEPT !.val = <<>>]
    ELSE ToggleAt(Call(w, "toggleVisibility", <<objId>>), ObjectPath(w.files, objId),
                  ~findObject(w, objId).visible)

(***************************************************************************)
(* uiController.js: setStatus, and the scene graph                         *)
(***************************************************************************)
setStatus(w, text) == [w EXCEPT !.status = text]

\* scene.add(mesh)
SceneAdd(w, h) == [w EXCEPT !.scene = @ \cup {h}]

\* mutant: the mesh leaves the scene, its geometry and material are kept
SceneRemoveAndDispose_RemoveOnly(w, h) == [w EXCEPT !.scene = @ \ {h}]

\* scene.remove(mesh), geometry.dispose(), material.dispose()
SceneRemoveAndDispose(w, h) ==
    [w EXCEPT !.scene = @ \ {h},
              !.meshes[h].geometryDisposed = TRUE,
              !.meshes[h].materialDisposed = TRUE]

(***************************************************************************)
(* fileHandler.js                                                          *)
(***************************************************************************)
RECURSIVE AddMeshes(_, _, _)
AddMeshes(w, objects, k) ==
    IF k = 0 THEN w ELSE SceneAdd(AddMeshes(w, objects, k - 1), objects[k].mesh)

\* catch (err) { console.error(err); setStatus(`Error loading ${name}`) }
Catch(w, name) ==
    IF Thrown(w)
    THEN setStatus([Log(w, [ev |-> "console.error", err |-> w.exc]) EXCEPT !.exc = Null],
                   <<"Error loading", name>>)
    ELSE w

\* mutant: the CRS entry is keyed by something all files share (here the id
\* of the oldest file), as a key made of the file's name is for two files of
\* one name
fileUploaded_SharedKey(w, name, content) ==
    Bind(loadLandXML(setStatus(Call(w, "file-uploaded", <<name>>), <<"Loading", name>>),
                     content, name), LAMBDA r :
    Catch(Then(r.w, LAMBDA w1 :
          Then(addFile(AddMeshes(w1, r.objects, Len(r.objects)), name, r.objects, r.fileMeta),
               LAMBDA w3 :
          Then(setCRS(w3, w3.files[1].id, r.crsAttrs), LAMBDA w4 :
               setStatus(w4, <<"Loaded", name, Len(r.objects)>>)))),
          name))

\* the 'file-uploaded' listener: the statements of the try block, each run
\* only when the one before it returned, then the catch clause
fileUploaded(w, name, content) ==
    Bind(loadLandXML(setStatus(Call(w, "file-uploaded", <<name>>), <<"Loading", name>>),
                     content, name), LAMBDA r :
    Catch(Then(r.w, LAMBDA w1 :
          Then(addFile(AddMeshes(w1, r.objects, Len(r.objects)), name, r.objects, r.fileMeta),
               LAMBDA w3 :
          Then(setCRS(w3, w3.files[Len(w3.files)].id, r.crsAttrs), LAMBDA w4 :
               setStatus(w4, <<"Loaded", name, Len(r.objects)>>)))),
          name))

RECURSIVE DisposeObjects(_, _, _)
DisposeObjects(w, objs, k) ==
    IF k = 0 THEN w
    ELSE LET w1 == DisposeObjects(w, objs, k - 1)
         IN  IF objs[k].mesh # 0 THEN SceneRemoveAndDispose(w1, objs[k].mesh) ELSE w1

\* scene.remove and dispose for every object of the file that has a mesh
DisposeFile(w, file) == DisposeObjects(w, ObjectsOf(file), Len(ObjectsOf(file)))

\* if (getFiles().length <= 1) resetOrigin()
ResetIfLast(w) == IF Len(getFiles(w)) <= 1 THEN resetOrigin(w) ELSE w

\* the callback handed to onFileDelete
onFileDeleteCallback(w, fileId) ==
    IF findFile(w, fileId) = Null THEN Call(w, "onDelete", <<fileId>>)
    ELSE Then(removeCRSForFile(Call(w, "onDelete", <<fileId>>), fileId), LAMBDA w1 :
              ResetIfLast(DisposeFile(w1, findFile(w, fileId))))

(***************************************************************************)
(* dataTree.js: the delete button of a file row                            *)
(***************************************************************************)
\* mutant: the store entry is removed before the delete callback runs
doDelete_RemoveFirst(w, fileId) == onFileDeleteCallback(removeFile(w, fileId), fileId)

\* doDelete: if (onDelete) onDelete(fileId); removeFile(fileId), with the
\* callback that initFileHandler registered
doDelete(w, fileId) ==
    Then(onFileDeleteCallback(w, fileId), LAMBDA w1 : removeFile(w1, fileId))

\* settingsManager.js: settings.confirmDelete !== false
shouldConfirmDelete(w) == w.confirmDelete # FALSE

\* showDeleteConfirm: an open popup is replaced
showDeleteConfirm(w, fileId) == [w EXCEPT !.dialog = fileId]

\* mutant: the delete button deletes at once, whatever the setting
deleteClicked_NoConfirm(w, fileId) ==
    LET c == Call(w, "tree-delete click", <<fileId>>)
    IN  IF findFile(w, fileId) = Null THEN c ELSE doDelete(c, fileId)

\* the click listener of a .tree-delete button
deleteClicked(w, fileId) ==
    LET c == Call(w, "tree-delete click", <<fileId>>)
    IN  IF findFile(w, fileId) = Null THEN c
        ELSE IF shouldConfirmDelete(w) THEN showDeleteConfirm(c, fileId)
        ELSE doDelete(c, fileId)

\* the click listener of the popup's Delete button: overlay.remove(); onConfirm()
confirmClicked(w) ==
    doDelete([Call(w, "delete-btn-ok click", <<w.dialog>>) EXCEPT !.dialog = Null], w.dialog)

\* the popup's Cancel button, or a click on the overlay: overlay.remove()
cancelClicked(w) == [Call(w, "delete-btn-cancel click", <<w.dialog>>) EXCEPT !.dialog = Null]

(***************************************************************************)
(* Initial states.  InitModules: the modules as loaded, nothing            *)
(* registered.  Init: the viewer after main.js ran (initDataTree has       *)
(* registered render as the store listener, main.js its CRS display        *)
(* listener, initSettings has read the saved settings).                    *)
(***************************************************************************)
InitModules ==
    /\ origin = Null
    /\ crsEntries = <<>>
    /\ onChangeCallbacks = <<>>
    /\ files = <<>>
    /\ nextFileId = 0
    /\ nextObjId = 0
    /\ onChange = null
    /\ scene = {}
    /\ meshes = <<>>
    /\ status = <<"">>
    /\ dialog = Null
    /\ confirmDelete = TRUE
    /\ held = Null
    /\ subscribed = <<>>
    /\ trace = <<>>
    /\ ret = [op |-> "init", args |-> <<>>, val |-> undefined]
    /\ resetSeen = FALSE

Init ==
    /\ origin = Null
    /\ crsEntries = <<>>
    /\ onChangeCallbacks = <<"crsDisplay">>
    /\ files = <<>>
    /\ nextFileId = 0
    /\ nextObjId = 0
    /\ onChange = "render"
    /\ scene = {}
    /\ meshes = <<>>
    /\ status = <<"Ready">>
    /\ dialog = Null
    /\ confirmDelete \in BOOLEAN
    /\ held = Null
    /\ subscribed = <<"render">>
    /\ trace = <<>>
    /\ ret = [op |-> "init", args |-> <<>>, val |-> undefined]
    /\ resetSeen = FALSE

Returned(op, args, val) == ret' = [op |-> op, args |-> args, val |-> val]

(***************************************************************************)
(* The exported functions of crsManager.js as operations.                  *)
(***************************************************************************)
OnCRSChange(cb) ==
    /\ Len(onChangeCallbacks) < MaxCallbacks
    /\ Commit(onCRSChange(Cur, cb))
    /\ Returned("onCRSChange", <<cb>>, undefined)

SetCRS(fileKey, info) ==
    /\ Commit(setCRS(Cur, fileKey, info))
    /\ Returned("setCRS", <<fileKey, info>>, undefined)

RemoveCRSForFile(fileKey) ==
    /\ Commit(removeCRSForFile(Cur, fileKey))
    /\ Returned("removeCRSForFile", <<fileKey>>, undefined)

InitOriginFromPoints(rawPoints) ==
    /\ Commit(initOriginFromPoints(Cur, rawPoints))
    /\ Returned("initOriginFromPoints", <<rawPoints>>, undefined)

ResetOrigin ==
    /\ Commit(resetOrigin(Cur))
    /\ Returned("resetOrigin", <<>>, undefined)

\* the read-only exports: the state is left alone, the return value is recorded
GetOrigin ==
    /\ Commit(Call(Cur, "getOrigin", <<>>))
    /\ Returned("getOrigin", <<>>, [origin |-> getOrigin(Cur), hasOrigin |-> hasOrigin(Cur)])

GetCRSName ==
    /\ Commit(Call(Cur, "getCRSName", <<>>))
    /\ Returned("getCRSName", <<>>, getCRSName(Cur))

ApplyOffset(p) ==
    /\ Commit(Call(Cur, "applyOffset", p))
    /\ Returned("applyOffset", p, applyOffset(Cur, p[1], p[2], p[3]))

\* toWorldCoords(...applyOffset(x, y, z)): the two directions, one after the other
RoundTrip(p) ==
    LET s == applyOffset(Cur, p[1], p[2], p[3])
    IN  /\ Commit(Call(Call(Cur, "applyOffset", p), "toWorldCoords", s))
        /\ Returned("roundTrip", p, toWorldCoords(Cur, s[1], s[2], s[3]))

NextOrigin ==
    \/ \E P \in PointLists : InitOriginFromPoints(P)
    \/ ResetOrigin
    \/ GetOrigin
    \/ \E p \in SamplePoints : ApplyOffset(p)
    \/ \E p \in SamplePoints : RoundTrip(p)

SpecOrigin == InitModules /\ [][NextOrigin]_vars

\* computeWorldBBox(rawPoints), called in every origin state
ComputeWorldBBox(rawPoints) ==
    /\ Commit(Call(Cur, "computeWorldBBox", <<rawPoints>>))
    /\ Returned("computeWorldBBox", <<rawPoints>>, computeWorldBBox(rawPoints))

BBoxLists == PointLists \cup {<< <<0, 0, 0>>, <<10, 0, 0>>, <<0, 10, 0>> >>}

NextBBox ==
    \/ \E P \in PointLists : InitOriginFromPoints(P)
    \/ ResetOrigin
    \/ \E P \in BBoxLists : ComputeWorldBBox(P)

SpecBBox == InitModules /\ [][NextBBox]_vars

NextCRS ==
    \/ \E k \in FileKeys, info \in CrsInfos : SetCRS(k, info)
    \/ \E k \in FileKeys : RemoveCRSForFile(k)
    \/ GetCRSName

SpecCRS == InitModules /\ [][NextCRS]_vars

\* every mutating call with listeners registered, over two keys, three
\* attribute objects and three point lists
ApiInfos == {EmptyObj, [k \in {"CRS"} |-> "NAD83"], [k \in {"Datum"} |-> "D1"]}
ApiKeys == {FileId(0), FileId(1)}
ApiPointLists == {<<>>, <<<<1, 0, 10>>>>, <<<<10, 10, 1>>, <<0, 0, 0>>>>}

NextAPI ==
    \/ \E cb \in Callbacks : OnCRSChange(cb)
    \/ \E k \in ApiKeys, info \in ApiInfos : SetCRS(k, info)
    \/ \E k \in ApiKeys : RemoveCRSForFile(k)
    \/ \E P \in ApiPointLists : InitOriginFromPoints(P)
    \/ ResetOrigin

SpecAPI == InitModules /\ [][NextAPI]_vars

(***************************************************************************)
(* The registry's interface called directly, with files loaded by the      *)
(* 'file-uploaded' listener.                                               *)
(***************************************************************************)
FileUploaded(name) ==
    /\ nextFileId < MaxFiles
    /\ \E xmlDoc \in parseFromString(name) : Commit(fileUploaded(Cur, name, xmlDoc))
    /\ Returned("file-uploaded", <<name>>, undefined)

OnStoreChange(cb) ==
    /\ Len(subscribed) < MaxSubs
    /\ Commit(onStoreChange(Cur, cb))
    /\ Returned("onStoreChange", <<cb>>, undefined)

RemoveFile(fileId) ==
    /\ Commit(removeFile(Cur, fileId))
    /\ Returned("removeFile", <<fileId>>, undefined)

StoreListeners == {"render", "cbS"}

NextStore ==
    \/ \E name \in DocNames : FileUploaded(name)
    \/ \E cb \in StoreListeners : OnStoreChange(cb)
    \/ \E n \in 0..(MaxFiles - 1) : RemoveFile(FileId(n))

SpecStore == InitModules /\ [][NextStore]_vars

(***************************************************************************)
(* The mesh builder called directly, surface after surface, on surfaces    *)
(* with points and faces of every kind.                                    *)
(***************************************************************************)
MaxMeshes == 2       \* createSurfaceMesh calls (caps the meshes made)

\* four points of three tokens
PFour == << PNode(<<"1">>, <<"0", " ", "0", " ", "0">>),
            PNode(<<"2">>, <<"8", " ", "0", " ", "0">>),
            PNode(<<"3">>, <<"0", " ", "8", " ", "4">>),
            PNode(<<"4">>, <<"8", " ", "8", " ", "4">>) >>

\* a point of two tokens, a point whose tokens are not numbers, two of three
PMixed == << PNode(<<"1">>, <<"1", "0", " ", "2", "0">>),
             PNode(<<"2">>, <<"a", " ", "b", " ", "c">>),
             PNode(<<"3">>, <<"1", " ", "2", " ", "3">>),
             PNode(<<"4">>, <<" ", "4", " ", "4", " ", "6", " ">>) >>

\* a point with one token not a number among two good ones
PBad == << PNode(<<"1">>, <<"1", " ", "x", " ", "3">>) >>

\* points of one token and of four, and an empty one
POdd == << PNode(<<"1">>, <<"5">>),
           PNode(<<"2">>, <<"1", " ", "2", " ", "3", " ", "4">>),
           PNode(<<"3">>, <<"2", " ", "2", " ", "2">>),
           PNode(<<"4">>, <<>>) >>

\* two points of the id 3, and a point of that id that does not parse
PDup == << PNode(<<"1">>, <<"0", " ", "0", " ", "0">>),
           PNode(<<"3">>, <<"8", " ", "0", " ", "0">>),
           PNode(<<"4">>, <<"0", " ", "8", " ", "4">>),
           PNode(<<"3">>, <<"8", " ", "8", " ", "4">>),
           PNode(<<"3">>, <<"x", " ", "8", " ", "4">>) >>

SurfacePoints == {<<>>, PFour, PMixed, PBad, POdd, PDup}

FOk == FNode(EmptyObj, <<"1", " ", "3", " ", "4">>)
FOk2 == FNode(("i" :> "0"), <<" ", "3", " ", "4", " ", "1">>)
FInvisible == FNode(("i" :> "1"), <<"1", " ", "3", " ", "4">>)
FTwoIds == FNode(EmptyObj, <<"1", " ", "3">>)
FFourIds == FNode(EmptyObj, <<"1", " ", "3", " ", "4", " ", "1">>)
FDangling == FNode(EmptyObj, <<"1", " ", "3", " ", "9">>)
FDropped == FNode(EmptyObj, <<"1", " ", "2", " ", "3">>)

SurfaceFaces == {<<>>, <<FOk>>, <<FOk, FOk2>>, <<FInvisible, FOk>>, <<FTwoIds, FOk2>>,
                 <<FDangling, FFourIds>>, <<FDropped, FOk>>, <<FOk, FDangling, FOk2>>}

SurfaceNodes == {[attrs |-> EmptyObj, P |-> P, F |-> F] : P \in SurfacePoints, F \in SurfaceFaces}

\* createSurfaceMesh(surfaceNode, surfaceIndex), returning {mesh, rawPoints}
CreateSurfaceMesh(surfaceNode) ==
    /\ Len(meshes) < MaxMeshes
    /\ \E w1 \in {createSurfaceMesh(Cur, surfaceNode, Len(meshes))} :
          /\ Commit(w1)
          /\ Returned("createSurfaceMesh", <<surfaceNode>>,
                      [mesh |-> Len(w1.meshes), rawPoints |-> RawPointsOf(surfaceNode)])

NextSurface == \E surfaceNode \in SurfaceNodes : CreateSurfaceMesh(surfaceNode)

SpecSurface == InitModules /\ [][NextSurface]_vars

\* attributes that are there but empty, an Application without a name or a
\* version, and a surface with an empty desc and one point
DocD ==
    [root |-> [attrs |-> ("version" :> "" @@ "time" :> "12:00")],
     crs |-> [attrs |-> ("desc" :> "" @@ "datum" :> "D2")],
     project |-> NoAttrs,
     app |-> [attrs |-> ("name" :> "" @@ "version" :> "")],
     units |-> [attrs |-> ("linearUnit" :> "" @@ "areaUnit" :> "acre")],
     surfaces |-> <<
        [attrs |-> ("desc" :> ""),
         P |-> << PNode(<<"1">>, <<"2", " ", "4", " ", "8">>) >>,
         F |-> << >>] >>]

ParseDocs == {DocA, DocB, DocC, DocD, DocParserError, DocTruncated}

\* loadLandXML(xmlString, fileName) on the document the text parses to
LoadLandXML(xmlDoc) ==
    /\ Len(meshes) <= MaxMeshes
    /\ \E r \in {loadLandXML(Cur, xmlDoc, "f.xml")} :
          /\ Commit(r.w)
          /\ Returned("loadLandXML", <<xmlDoc>>,
                      [fileMeta |-> r.fileMeta, objects |-> r.objects,
                       crsAttrs |-> r.crsAttrs, threw |-> Thrown(r.w)])

NextParse ==
    \/ \E xmlDoc \in ParseDocs : LoadLandXML(xmlDoc)
    \/ ResetOrigin

SpecParse == InitModules /\ [][NextParse]_vars

(***************************************************************************)
(* The registry's whole interface called by a client module: the client    *)
(* makes its objects (some with a mesh of its own) and hands them to       *)
(* addFile, toggles and looks up ids it knows or made up, and keeps the    *)
(* array getFiles returned.                                                *)
(***************************************************************************)
MaxAdds == 2         \* addFile calls of the client (caps nextFileId)

\* what the client hands to addFile: type "" and name <<>> stand for an absent
\* property; an object has a mesh of the given name, or none
KSurface == [type |-> "Surface", name |-> <<>>, hasMesh |-> TRUE, meshName |-> <<"">>]
KPipe == [type |-> "Pipe", name |-> <<"P1">>, hasMesh |-> FALSE, meshName |-> <<"">>]
KOther == [type |-> "", name |-> <<>>, hasMesh |-> TRUE, meshName |-> <<"M">>]

ObjectLists == {<<>>, <<KSurface, KPipe, KSurface>>, <<KOther, KSurface>>}

\* new THREE.Mesh() in the client: visible, not in the scene
ClientMesh(name) ==
    [name |-> name, visible |-> TRUE, vertexArray |-> <<>>, positions |-> <<>>,
     polygonOffsetFactor |-> 0,
     polygonOffsetUnits |-> 0, position |-> <<0, 0, 0>>, geometryDisposed |-> FALSE,
     materialDisposed |-> FALSE]

\* the objects array of the client for a list of kinds, its meshes created
RECURSIVE ClientObjects(_, _, _)
ClientObjects(w, kinds, k) ==
    IF k = 0 THEN [w |-> w, objects |-> <<>>]
    ELSE Bind(ClientObjects(w, kinds, k - 1), LAMBDA r :
        IF kinds[k].hasMesh
        THEN [w |-> [r.w EXCEPT !.meshes = Append(@, ClientMesh(kinds[k].meshName))],
              objects |-> Append(r.objects,
                                 [type |-> kinds[k].type, name |-> kinds[k].name,
                                  mesh |-> Len(r.w.meshes) + 1, metadata |-> EmptyObj])]
        ELSE [w |-> r.w,
              objects |-> Append(r.objects,
                                 [type |-> kinds[k].type, name |-> kinds[k].name,
                                  mesh |-> 0, metadata |-> EmptyObj])])

AddFile(fileName, kinds) ==
    /\ nextFileId < MaxAdds
    /\ \E r \in {ClientObjects(Cur, kinds, Len(kinds))} :
       \E w1 \in {addFile(r.w, fileName, r.objects, EmptyObj)} :
          /\ Commit(w1)
          /\ Returned("addFile", <<fileName, kinds>>, w1.files[Len(w1.files)])

ToggleVisibility(objId) ==
    \E w1 \in {toggleVisibility(Cur, objId)} :
       /\ Commit(w1)
       /\ Returned("toggleVisibility", <<objId>>, w1.val)

\* two calls in a row for the same id
ToggleTwice(objId) ==
    \E w1 \in {toggleVisibility(toggleVisibility(Cur, objId), objId)} :
       /\ Commit(w1)
       /\ Returned("toggleVisibility twice", <<objId>>, w1.val)

FindFile(fileId) ==
    /\ Commit(Call(Cur, "findFile", <<fileId>>))
    /\ Returned("findFile", <<fileId>>, findFile(Cur, fileId))

FindObject(objId) ==
    /\ Commit(Call(Cur, "findObject", <<objId>>))
    /\ Returned("findObject", <<objId>>, findObject(Cur, objId))

\* the client keeps the array it is handed
GetFiles ==
    /\ held = Null
    /\ Commit([Call(Cur, "getFiles", <<>>) EXCEPT
                  !.held = [seen |-> getFiles(Cur), view |-> getFiles(Cur), live |-> TRUE]])
    /\ Returned("getFiles", <<>>, getFiles(Cur))

\* ids handed out so far, and the next one, which no entry has yet
KnownFileIds == {FileId(n) : n \in 0..nextFileId}
KnownObjIds == {ObjId(n) : n \in 0..nextObjId}

\* the modules after the client registered its listener
InitRegistry ==
    /\ origin = Null
    /\ crsEntries = <<>>
    /\ onChangeCallbacks = <<>>
    /\ files = <<>>
    /\ nextFileId = 0
    /\ nextObjId = 0
    /\ onChange = "cbS"
    /\ scene = {}
    /\ meshes = <<>>
    /\ status = <<"">>
    /\ dialog = Null
    /\ confirmDelete = TRUE
    /\ held = Null
    /\ subscribed = <<"cbS">>
    /\ trace = <<>>
    /\ ret = [op |-> "init", args |-> <<>>, val |-> undefined]
    /\ resetSeen = FALSE

\* adding, removing and toggling
NextRegistry ==
    \/ \E kinds \in ObjectLists : AddFile("client.dat", kinds)
    \/ \E fileId \in KnownFileIds : RemoveFile(fileId)
    \/ \E objId \in KnownObjIds : ToggleVisibility(objId)
    \/ \E objId \in KnownObjIds : ToggleTwice(objId)

SpecRegistry == InitRegistry /\ [][NextRegistry]_vars

\* adding and removing, with lookups of ids known and made up
NextLookup ==
    \/ \E kinds \in ObjectLists : AddFile("client.dat", kinds)
    \/ \E fileId \in KnownFileIds : RemoveFile(fileId)
    \/ \E fileId \in KnownFileIds : FindFile(fileId)
    \/ \E objId \in KnownObjIds : FindObject(objId)

SpecLookup == InitRegistry /\ [][NextLookup]_vars

\* a client that keeps what getFiles returned while the registry changes
NextSnapshot ==
    \/ AddFile("client.dat", <<KOther, KSurface>>)
    \/ \E fileId \in KnownFileIds : RemoveFile(fileId)
    \/ \E objId \in KnownObjIds : ToggleVisibility(objId)
    \/ GetFiles

SpecSnapshot == InitRegistry /\ [][NextSnapshot]_vars

\* listeners come and go while the registry changes
NextSubscribe ==
    \/ \E cb \in StoreListeners : OnStoreChange(cb)
    \/ AddFile("client.dat", <<KOther, KSurface>>)
    \/ \E fileId \in KnownFileIds : RemoveFile(fileId)
    \/ \E objId \in KnownObjIds : ToggleVisibility(objId)

SpecSubscribe == InitModules /\ [][NextSubscribe]_vars

(***************************************************************************)
(* The viewer: files arrive, delete buttons of the rendered file rows are  *)
(* clicked, the confirmation popup is answered, the setting is toggled.    *)
(***************************************************************************)
FileIds(fs) == {fs[i].id : i \in 1..Len(fs)}

DeleteClicked(fileId) ==
    /\ fileId \in FileIds(files)
    /\ Commit(deleteClicked(Cur, fileId))
    /\ Returned("tree-delete click", <<fileId>>, undefined)

ConfirmClicked ==
    /\ dialog # Null
    /\ Commit(confirmClicked(Cur))
    /\ Returned("delete-btn-ok click", <<dialog>>, undefined)

CancelClicked ==
    /\ dialog # Null
    /\ Commit(cancelClicked(Cur))
    /\ Returned("delete-btn-cancel click", <<dialog>>, undefined)

\* the settings checkbox: settings.confirmDelete = e.target.checked
ConfirmDeleteChanged ==
    /\ Commit([Call(Cur, "setting-confirm-delete change", <<>>) EXCEPT !.confirmDelete = ~@])
    /\ Returned("setting-confirm-delete change", <<>>, undefined)

Next ==
    \/ \E name \in DocNames : FileUploaded(name)
    \/ \E n \in 0..(MaxFiles - 1) : DeleteClicked(FileId(n))
    \/ ConfirmClicked
    \/ CancelClicked
    \/ ConfirmDeleteChanged

Spec == Init /\ [][Next]_vars

(***************************************************************************)
(* The viewer with uploads of every kind, one of them not well-formed, on  *)
(* a page where another script may register a CRS listener that throws.    *)
(***************************************************************************)
LoadNames == {"c.xml", "bad.xml"}

NextLoad ==
    \/ \E name \in LoadNames : FileUploaded(name)
    \/ \E cb \in ThrowingCallbacks : OnCRSChange(cb)
    \/ \E n \in 0..(MaxFiles - 1) : DeleteClicked(FileId(n))
    \/ ConfirmClicked
    \/ CancelClicked

SpecLoad == Init /\ [][NextLoad]_vars

(***************************************************************************)
(* Properties.                                                             *)
(***************************************************************************)
\* the exact (unrounded) sum of one axis, and whether the program's running sum
\* met no rounding on the way
RECURSIVE ExactSum(_, _, _)
ExactSum(P, axis, k) == IF k = 0 THEN 0 ELSE ExactSum(P, axis, k - 1) + P[k][axis]

SumIsExact(P, axis) ==
    \A k \in 0..Len(P) : Representable(ExactSum(P, axis, k))

\* the per-axis arithmetic mean as a Number: the float sum, left to right,
\* divided by the count; where the sum is exact this is the representable value
\* nearest to the true mean
IsMeanOf(o, P) ==
    /\ o # Null
    /\ \A axis \in 1..3 :
          LET v == <<o.x, o.y, o.z>>[axis]
          IN  /\ v = FDiv(SumAxis(P, axis, Len(P)), Len(P))
              /\ SumIsExact(P, axis) => v = RoundQ(ExactSum(P, axis, Len(P)), Len(P))

\* C1: first-wins origin. A call of initOriginFromPoints with a non-empty list
\* P while no origin is set makes the origin the per-axis mean of P; a call
\* while an origin is set leaves the origin as it is.
C1_FirstWinsOrigin ==
    [][ret'.op = "initOriginFromPoints" =>
            LET P == ret'.args[1]
            IN  /\ (origin = Null /\ P # <<>>) => IsMeanOf(origin', P)
                /\ origin # Null => origin' = origin]_vars

\* a later call with a list of another mean has left the first origin in place
C1_Witness ==
    /\ ret.op = "initOriginFromPoints"
    /\ trace[1].hasOrigin
    /\ ret.args[1] # <<>>
    /\ ~IsMeanOf(origin, ret.args[1])

\* C6: resetOrigin clears the origin (getOrigin null, hasOrigin false), and the
\* next initOriginFromPoints call with a non-empty list Q makes the origin the
\* mean of Q, whatever the origin was before the reset.
C6_ResetThenReestablish ==
    [][/\ ret'.op = "resetOrigin" =>
            /\ origin' = Null
            /\ getOrigin([origin |-> origin']) = Null
            /\ ~hasOrigin([origin |-> origin'])
       /\ (ret'.op = "initOriginFromPoints" /\ origin = Null /\ ret'.args[1] # <<>>) =>
            IsMeanOf(origin', ret'.args[1])]_vars

\* an origin was set, reset, and set again from the points of a later call
C6_Witness ==
    /\ resetSeen
    /\ ret.op = "initOriginFromPoints"
    /\ ~trace[1].hasOrigin
    /\ origin # Null
    /\ IsMeanOf(origin, ret.args[1])

\* C7: applyOffset(p) is p minus the origin on every axis when the origin is
\* set (the Number nearest to the difference), and p itself when it is not.
C7_ApplyOffset ==
    ret.op = "applyOffset" =>
        LET p == ret.args
        IN  IF origin = Null THEN ret.val = p
            ELSE ret.val = <<RoundQ(p[1] - origin.x, 1),
                             RoundQ(p[2] - origin.y, 1),
                             RoundQ(p[3] - origin.z, 1)>>

\* an offset was applied under a set origin and moved the point on the y axis
C7_Witness ==
    /\ ret.op = "applyOffset"
    /\ origin # Null
    /\ ret.val # ret.args
    /\ ret.val[2] # ret.args[2]

\* C8 as stated: toWorldCoords(applyOffset(p)) equals p for every p and every
\* origin state.
C8_RoundTripExact ==
    ret.op = "roundTrip" =>
        ret.val = [x |-> ret.args[1], y |-> ret.args[2], z |-> ret.args[3]]

\* C8 amended: the round trip returns p when the origin is unset, and, when it
\* is set, on every axis on which p minus the origin is exactly representable;
\* on the other axes the difference was rounded and the result is the Number
\* nearest to (rounded difference + origin).
C8_RoundTripWhereExact ==
    ret.op = "roundTrip" =>
        LET p == ret.args
            o == IF origin = Null THEN <<0, 0, 0>> ELSE <<origin.x, origin.y, origin.z>>
            r == <<ret.val.x, ret.val.y, ret.val.z>>
        IN  \A axis \in 1..3 :
               /\ (origin = Null \/ Representable(p[axis] - o[axis])) => r[axis] = p[axis]
               /\ origin # Null => r[axis] = RoundQ(RoundQ(p[axis] - o[axis], 1) + o[axis], 1)

\* a round trip under a set origin that gave p back on every axis
C8_Witness ==
    /\ ret.op = "roundTrip"
    /\ origin # Null
    /\ origin # [x |-> 0, y |-> 0, z |-> 0]
    /\ ret.val = [x |-> ret.args[1], y |-> ret.args[2], z |-> ret.args[3]]

\* the names of the entries, and whether some entry has none
EntryNames == {crsEntries[i].name : i \in 1..Len(crsEntries)} \ {null}
SomeUnnamed == \E i \in 1..Len(crsEntries) : crsEntries[i].name = null

\* C9: getCRSName is null iff there is no entry, "No CRS" iff there are entries
\* and none has a name, the shared name iff every entry has a name and the
\* names are one, and "Mixed CRS" in every other case.
C9_CRSNameReconciliation ==
    ret.op = "getCRSName" =>
        /\ (ret.val = null) <=> (Len(crsEntries) = 0)
        /\ (ret.val = "No CRS") <=> (Len(crsEntries) > 0 /\ EntryNames = {})
        /\ (Cardinality(EntryNames) = 1 /\ ~SomeUnnamed) <=> (ret.val \in EntryNames)
        /\ (ret.val = "Mixed CRS") <=>
              \/ Cardinality(EntryNames) > 1
              \/ (Cardinality(EntryNames) = 1 /\ SomeUnnamed)

\* two entries share a name and a third has none: Mixed CRS
C9_Witness ==
    /\ ret.op = "getCRSName"
    /\ ret.val = "Mixed CRS"
    /\ Cardinality(EntryNames) = 1
    /\ SomeUnnamed
    /\ Len(crsEntries) = 3

\* the deliveries logged by the latest operation
Deliveries == SelectSeq(trace, LAMBDA e : e.ev = "crsNotify")

\* the latest operation changed the origin or the CRS map, or is a call that
\* always notifies
Mutating ==
    \/ ret.op \in {"setCRS", "removeCRSForFile", "resetOrigin"}
    \/ (ret.op = "initOriginFromPoints" /\ ~trace[1].hasOrigin /\ ret.args[1] # <<>>)

\* C10: a mutating call of the CRS manager delivers to every registered
\* listener exactly once, before it returns, in registration order, the
\* snapshot (crsName, crsInfo, origin, hasOrigin) of the state it leaves.
C10_ObserversNotified ==
    Mutating =>
        /\ Len(Deliveries) = Len(onChangeCallbacks)
        /\ \A i \in 1..Len(Deliveries) :
              /\ Deliveries[i].cb = onChangeCallbacks[i]
              /\ Deliveries[i].state.crsName = getCRSName([crsEntries |-> crsEntries])
              /\ Deliveries[i].state.crsInfo = getCRSInfo([crsEntries |-> crsEntries])
              /\ Deliveries[i].state.origin = origin
              /\ Deliveries[i].state.hasOrigin = (origin # Null)

\* two different listeners were told, in order, of an origin that was just set
\* while a CRS entry was registered
C10_Witness ==
    /\ ret.op = "initOriginFromPoints"
    /\ Mutating
    /\ onChangeCallbacks = <<"cbB", "cbA">>
    /\ Len(Deliveries) = 2
    /\ Deliveries[1].cb = "cbB"
    /\ Deliveries[2].state.hasOrigin
    /\ Deliveries[2].state.crsName = "NAD83"

(***************************************************************************)
(* The viewer session: loads and deletes.                                  *)
(***************************************************************************)
\* the points of the first surface of a document that has a valid point
RECURSIVE FirstWithPoints(_, _)
FirstWithPoints(surfaces, i) ==
    IF i > Len(surfaces) THEN <<>>
    ELSE IF Len(RawPointsOf(surfaces[i])) > 0 THEN RawPointsOf(surfaces[i])
    ELSE FirstWithPoints(surfaces, i + 1)

\* C2: in a session of loads and deletes the origin changes only from unset
\* to the mean of the first surface with points of the file being loaded, or
\* from set to unset in an operation that called resetOrigin; it never goes
\* from one set value to another.
C2_OriginChangesOnlyBySetOrReset ==
    [][origin' # origin =>
        \/ /\ origin = Null
           /\ ret'.op = "file-uploaded"
           /\ Len(FirstWithPoints(DocOf(ret'.args[1]).surfaces, 1)) > 0
           /\ origin' = Centroid(FirstWithPoints(DocOf(ret'.args[1]).surfaces, 1))
        \/ /\ origin # Null
           /\ origin' = Null
           /\ CalledIn(trace', "resetOrigin")]_vars

\* a file was loaded while the origin was set, one of its surfaces offered
\* points with another mean, and the origin is not that mean
C2_Witness ==
    /\ ret.op = "file-uploaded"
    /\ origin # Null
    /\ \E i \in 1..Len(trace) :
          /\ IsCall(trace[i], "initOriginFromPoints")
          /\ trace[1].hasOrigin
          /\ Len(trace[i].args[1]) > 0
          /\ Centroid(trace[i].args[1]) # origin

RECURSIVE ObjectCount(_, _)
ObjectCount(fs, k) == IF k = 0 THEN 0 ELSE ObjectCount(fs, k - 1) + Len(ObjectsOf(fs[k]))

\* the latest operation ran the delete of a file (doDelete)
DeleteRan ==
    /\ ret.op \in {"tree-delete click", "delete-btn-ok click"}
    /\ CalledIn(trace, "removeFile")

\* C3: after a delete that leaves no object in the registry, counted over all
\* the files that remain, the origin is unset.
C3_OriginUnsetWhenNoObjects ==
    (DeleteRan /\ ObjectCount(files, Len(files)) = 0) => origin = Null

\* the call of removeFile that emptied the file list, in the latest operation
EmptyingRemove(i) ==
    /\ DeleteRan
    /\ IsCall(trace[i], "removeFile")
    /\ trace[i].nFiles = 1
    /\ files = <<>>

C5_RemoveFileFrame ==
    [][ret'.op = "removeFile" =>
        /\ files' = SelectSeq(files, LAMBDA f : f.id # ret'.args[1])
        /\ origin' = origin
        /\ crsEntries' = crsEntries
        /\ onChangeCallbacks' = onChangeCallbacks
        /\ scene' = scene
        /\ meshes' = meshes
        /\ nextFileId' = nextFileId
        /\ nextObjId' = nextObjId
        /\ onChange' = onChange]_vars

\* removeFile has emptied the file list and the origin, the file's CRS entry
\* and its mesh in the scene are still there
C5_Witness ==
    /\ ret.op = "removeFile"
    /\ files = <<>>
    /\ nextFileId > 0
    /\ origin # Null
    /\ crsEntries # <<>>
    /\ scene # {}

(***************************************************************************)
(* The scene registry: observers.                                          *)
(***************************************************************************)
\* the store notifications logged by the latest operation
StoreDeliveries == SelectSeq(trace, LAMBDA e : e.ev = "storeNotify")

\* the latest operation was a call that changes the registry
RegistryMutated ==
    \/ ret.op \in {"addFile", "removeFile"}
    \/ (ret.op = "toggleVisibility" /\ ret.val # <<>>)

Delivered(cb) == \E k \in 1..Len(StoreDeliveries) : StoreDeliveries[k].cb = cb

FirstDelivery(cb) ==
    CHOOSE k \in 1..Len(StoreDeliveries) :
        /\ StoreDeliveries[k].cb = cb
        /\ \A j \in 1..(k - 1) : StoreDeliveries[j].cb # cb

FirstSubscription(i) == \A k \in 1..(i - 1) : subscribed[k] # subscribed[i]

\* C11: every callback that was handed to onStoreChange, not only the latest,
\* is notified by each call that changes the registry (addFile, removeFile,
\* toggleVisibility), the callbacks in the order they subscribed.
C11_EverySubscriberNotified ==
    RegistryMutated =>
        /\ \A i \in 1..Len(subscribed) : Delivered(subscribed[i])
        /\ \A i, j \in 1..Len(subscribed) :
              (i < j /\ FirstSubscription(i) /\ FirstSubscription(j))
                  => FirstDelivery(subscribed[i]) < FirstDelivery(subscribed[j])

(***************************************************************************)
(* The scene registry: addFile.                                            *)
(***************************************************************************)
AllVisible(file) == \A k \in 1..Len(ObjectsOf(file)) : ObjectsOf(file)[k].visible

\* C12: a call of addFile notifies the listener exactly once, and the files
\* the listener is handed end with the new file entry, every object of the
\* call registered in it and visible.
C12_AddFileAtomic ==
    ret.op = "addFile" =>
        /\ Len(StoreDeliveries) = 1
        /\ StoreDeliveries[1].files = files
        /\ StoreDeliveries[1].files # <<>>
        /\ LET last == StoreDeliveries[1].files[Len(StoreDeliveries[1].files)]
           IN  /\ last = ret.val
               /\ last.id = FileId(nextFileId - 1)
               /\ Len(ObjectsOf(last)) = Len(ret.args[2])
               /\ AllVisible(last)

\* a second file of three objects was added after an object of the first was hidden
C12_Witness ==
    /\ ret.op = "addFile"
    /\ Len(ret.args[2]) = 3
    /\ Len(files) = 2
    /\ ~AllVisible(files[1])
    /\ Len(StoreDeliveries) = 1

(***************************************************************************)
(* The scene registry: ids.                                                *)
(***************************************************************************)
\* the ids of the object entries of the files
ObjIdsOf(fs) == UNION {{ObjectsOf(fs[i])[k].id : k \in 1..Len(ObjectsOf(fs[i]))} : i \in 1..Len(fs)}

\* no id occurs twice in the registry, and every id is one the counters passed
UniqueIds ==
    /\ \A i, j \in 1..Len(files) : files[i].id = files[j].id => i = j
    /\ \A id \in ObjIdsOf(files) : Cardinality(ObjectPaths(files, id)) = 1
    /\ \A id \in FileIds(files) : id[1] = "file" /\ id[2] < nextFileId
    /\ \A id \in ObjIdsOf(files) : id[1] = "obj" /\ id[2] < nextObjId

\* an id that enters the registry is one the counters had not reached, so it
\* was never the id of an earlier entry, removed or not
FreshIds ==
    /\ nextFileId' >= nextFileId
    /\ nextObjId' >= nextObjId
    /\ \A id \in FileIds(files') \ FileIds(files) : id[2] >= nextFileId
    /\ \A id \in ObjIdsOf(files') \ ObjIdsOf(files) : id[2] >= nextObjId

\* C13: no two files and no two objects ever have the same id, removed entries
\* included (ids come from counters that only grow), and an object id is
\* found in exactly one type group of exactly one file.
C13_IdsUniqueAndNeverReused == [](UniqueIds) /\ [][FreshIds]_vars

\* a file was added after an earlier file was removed, and got new ids
C13_Witness ==
    /\ ret.op = "addFile"
    /\ Len(ret.args[2]) = 3
    /\ nextFileId = 2
    /\ Len(files) = 1
    /\ nextObjId = 5
    /\ ObjIdsOf(files) = {ObjId(2), ObjId(3), ObjId(4)}

(***************************************************************************)
(* The scene registry: grouping and default names.                         *)
(***************************************************************************)
\* the type an object handed to addFile is filed under
TypeOfKind(kind) == IF kind.type = "" THEN "Other" ELSE kind.type

\* the 1-based position of the k-th object among the objects of its type
PosInType(kinds, k) ==
    Cardinality({j \in 1..k : TypeOfKind(kinds[j]) = TypeOfKind(kinds[k])})

\* the first object of the type of the k-th
FirstOfType(kinds, k) ==
    CHOOSE j \in 1..k :
        /\ TypeOfKind(kinds[j]) = TypeOfKind(kinds[k])
        /\ \A i \in 1..(j - 1) : TypeOfKind(kinds[i]) # TypeOfKind(kinds[k])

\* the 1-based rank of the type of the k-th object among the types, first seen first
TypeRank(kinds, k) ==
    Cardinality({TypeOfKind(kinds[j]) : j \in 1..FirstOfType(kinds, k)})

\* the object has no name and its mesh, if any, has none
Unnamed(kind) == kind.name = <<>> /\ (~kind.hasMesh \/ kind.meshName = <<"">>)

\* C14: the file entry addFile returns has one group per declared type
\* ("Other" without one), the groups in first-seen type order, the objects of
\* a group in the order they were handed over; an object without a name whose
\* mesh has none is named "<type> <k>", k its 1-based position in its group;
\* the files are in the order they were added.
C14_AddFileGrouping ==
    /\ \A i, j \in 1..Len(files) : i < j => files[i].id[2] < files[j].id[2]
    /\ ret.op = "addFile" =>
          LET kinds == ret.args[2]
              first == nextObjId - Len(kinds)
          IN  /\ ret.val = files[Len(files)]
              /\ Len(ret.val.groups) = Cardinality({TypeOfKind(kinds[k]) : k \in 1..Len(kinds)})
              /\ Len(ObjectsOf(ret.val)) = Len(kinds)
              /\ \A k \in 1..Len(kinds) :
                    /\ ret.val.groups[TypeRank(kinds, k)].type = TypeOfKind(kinds[k])
                    /\ ret.val.groups[TypeRank(kinds, k)].objects[PosInType(kinds, k)].id
                          = ObjId(first + k - 1)
                    /\ Unnamed(kinds[k]) =>
                          ret.val.groups[TypeRank(kinds, k)].objects[PosInType(kinds, k)].name
                              = <<TypeOfKind(kinds[k]), " ", PosInType(kinds, k)>>

\* Surface, Pipe, Surface were handed over: the second Surface is "Surface 2"
\* in the first group, the Pipe keeps its name in the second
C14_Witness ==
    /\ ret.op = "addFile"
    /\ Len(files) = 2
    /\ Len(ret.val.groups) = 2
    /\ ret.val.groups[1].type = "Surface"
    /\ ret.val.groups[1].objects[2].name = <<"Surface", " ", 2>>
    /\ ret.val.groups[2].objects[1].name = <<"P1">>

(***************************************************************************)
(* The scene registry: what getFiles hands out.                            *)
(***************************************************************************)
\* C15: the value getFiles returned is a snapshot: what the caller holds is
\* not changed by a later addFile, removeFile or toggleVisibility.
C15_GetFilesSnapshot == held # Null => held.view = held.seen

(***************************************************************************)
(* The scene registry: toggleVisibility.                                   *)
(***************************************************************************)
\* the entry of an id in a list of files, Null without one
EntryOf(fs, objId) == findObject([files |-> fs], objId)

\* one call for a known id: the flag is flipped and returned, the mesh
\* follows, the listener is told once of the files left, and no other entry
\* and no other mesh changes
ToggledOnce ==
    (ret'.op = "toggleVisibility" /\ ret'.val # <<>>) =>
        LET id == ret'.args[1]
        IN  /\ EntryOf(files, id) # Null
            /\ EntryOf(files', id) = [EntryOf(files, id) EXCEPT !.visible = ~@]
            /\ ret'.val = <<EntryOf(files', id).visible>>
            /\ \A other \in ObjIdsOf(files) \ {id} : EntryOf(files', other) = EntryOf(files, other)
            /\ ObjIdsOf(files') = ObjIdsOf(files)
            /\ Len(meshes') = Len(meshes)
            /\ \A h \in 1..Len(meshes) :
                  meshes'[h] = IF h = EntryOf(files, id).mesh
                               THEN [meshes[h] EXCEPT !.visible = ret'.val[1]]
                               ELSE meshes[h]
            /\ Len(SelectSeq(trace', LAMBDA e : e.ev = "storeNotify")) = 1
            /\ SelectSeq(trace', LAMBDA e : e.ev = "storeNotify")[1].files = files'

\* two calls in a row for a known id: the registry and the meshes are as before
ToggledTwice ==
    (ret'.op = "toggleVisibility twice" /\ ret'.val # <<>>) =>
        /\ files' = files
        /\ meshes' = meshes
        /\ ret'.val = <<EntryOf(files, ret'.args[1]).visible>>
        /\ Len(SelectSeq(trace', LAMBDA e : e.ev = "storeNotify")) = 2

\* C16: toggleVisibility for a known id flips the object's flag, sets its
\* mesh's visible to the same value when it has a mesh, notifies once and
\* returns the new flag; two calls in a row restore the state; no other
\* object's visibility changes.
C16_ToggleVisibility == [][ToggledOnce /\ ToggledTwice]_vars

\* two calls in a row were made for a hidden object with a mesh while another
\* object was hidden
C16_Witness ==
    /\ ret.op = "toggleVisibility twice"
    /\ ret.val = <<FALSE>>
    /\ EntryOf(files, ret.args[1]).mesh # 0
    /\ ~meshes[EntryOf(files, ret.args[1]).mesh].visible
    /\ \E other \in ObjIdsOf(files) \ {ret.args[1]} : ~EntryOf(files, other).visible

\* the latest operation called toggleVisibility for an id no entry has
ToggledUnknown ==
    /\ ret'.op \in {"toggleVisibility", "toggleVisibility twice"}
    /\ ret'.args[1] \notin ObjIdsOf(files)

\* C17: toggleVisibility for an id that no registered object has (never handed
\* out, or of a removed file) returns undefined, changes nothing and notifies
\* nobody.
C17_ToggleUnknownId ==
    [][ToggledUnknown =>
          /\ ret'.val = <<>>
          /\ SelectSeq(trace', LAMBDA e : e.ev = "storeNotify") = <<>>
          /\ UNCHANGED <<files, meshes, scene, nextFileId, nextObjId, onChange, origin,
                         crsEntries, onChangeCallbacks, status>>]_vars

\* the id of an object of a removed file was toggled while another file was
\* registered
C17_Witness ==
    /\ ret.op = "toggleVisibility"
    /\ ret.val = <<>>
    /\ ret.args[1][2] < nextObjId
    /\ ret.args[1] \notin ObjIdsOf(files)
    /\ files # <<>>
    /\ StoreDeliveries = <<>>

(***************************************************************************)
(* The scene registry: lookups.                                            *)
(***************************************************************************)
\* the object entries of the files
EntriesOf(fs) == UNION {{ObjectsOf(fs[i])[k] : k \in 1..Len(ObjectsOf(fs[i]))} : i \in 1..Len(fs)}

\* what a lookup returned: the registered entry of the id, null without one
LookupRight ==
    /\ ret.op = "findFile" =>
          IF ret.args[1] \in FileIds(files)
          THEN ret.val.id = ret.args[1] /\ \E i \in 1..Len(files) : files[i] = ret.val
          ELSE ret.val = Null
    /\ ret.op = "findObject" =>
          IF ret.args[1] \in ObjIdsOf(files)
          THEN ret.val.id = ret.args[1] /\ ret.val \in EntriesOf(files)
          ELSE ret.val = Null

\* after removeFile(f) the lookups of f and of its objects find nothing, the
\* lookups of every other file and object find what they found before
AfterRemove ==
    ret'.op = "removeFile" =>
        LET f == ret'.args[1]
            gone == IF findFile([files |-> files], f) = Null THEN {}
                    ELSE ObjIdsOf(<<findFile([files |-> files], f)>>)
        IN  /\ findFile([files |-> files'], f) = Null
            /\ \A id \in gone : findObject([files |-> files'], id) = Null
            /\ \A g \in FileIds(files) \ {f} :
                  findFile([files |-> files'], g) = findFile([files |-> files], g)
            /\ \A id \in ObjIdsOf(files) \ gone :
                  findObject([files |-> files'], id) = findObject([files |-> files], id)

\* C18: findFile and findObject return the entry of a registered id and null
\* for any other id; after removeFile(f) the lookups of f and of each of its
\* objects return null and all other lookups are unaffected.
C18_Lookups == [](LookupRight) /\ [][AfterRemove]_vars

\* an object of the second file was found after the first file was removed
C18_Witness ==
    /\ ret.op = "findObject"
    /\ ret.val # Null
    /\ nextFileId = 2
    /\ Len(files) = 1
    /\ files[1].id = FileId(1)
    /\ ret.val \in EntriesOf(files)

(***************************************************************************)
(* Loads that fail.                                                        *)
(***************************************************************************)
\* C19: the upload of a document that is not well-formed fails: the error is
\* reported for the file name, no file is added to the registry, no mesh to
\* the scene, no CRS entry is registered.
C19_MalformedLoadFails ==
    [][(ret'.op = "file-uploaded" /\ ret'.args[1] \in MalformedNames) =>
          /\ status' = <<"Error loading", ret'.args[1]>>
          /\ Len(SelectSeq(trace', LAMBDA e : e.ev = "console.error")) = 1
          /\ UNCHANGED <<files, scene, crsEntries>>]_vars

\* loadLandXML was entered and did not return
LoadThrew(tr) ==
    /\ CalledIn(tr, "loadLandXML")
    /\ \A i \in 1..Len(tr) : ~(tr[i].ev = "return" /\ tr[i].fn = "loadLandXML")

\* the numbers of objects loadLandXML can find in the upload of a name
ObjectCounts(name) == {Len(d.surfaces) : d \in parseFromString(name)}

\* C20: when loadLandXML throws during a load, the file list, the scene and
\* the CRS entries are as they were before the load, and the error is
\* reported; a load registers all the objects loadLandXML found or none.
C20_LoadAllOrNothing ==
    [][ret'.op = "file-uploaded" =>
          /\ LoadThrew(trace') =>
                /\ UNCHANGED <<files, scene, crsEntries, nextFileId, nextObjId>>
                /\ status' = <<"Error loading", ret'.args[1]>>
          /\ \/ files' = files
             \/ /\ Len(files') = Len(files) + 1
                /\ SubSeq(files', 1, Len(files)) = files
                /\ Len(ObjectsOf(files'[Len(files')])) \in ObjectCounts(ret'.args[1])
                /\ Cardinality(scene' \ scene) = Len(ObjectsOf(files'[Len(files')]))]_vars

\* a listener threw while the second surface of c.xml was made, with a file
\* registered before: the load failed and the file list is the one before
C20_Witness ==
    /\ ret.op = "file-uploaded"
    /\ ret.args[1] = "c.xml"
    /\ LoadThrew(trace)
    /\ CalledIn(trace, "createSurfaceMesh")
    /\ status = <<"Error loading", "c.xml">>
    /\ Len(files) = 1
    /\ Len(crsEntries) = 1
    /\ Len(meshes) > Cardinality(scene)

(***************************************************************************)
(* The mesh builder.                                                       *)
(***************************************************************************)
\* the ids of the points of a surface that are in its point table
TableIds(surfaceNode) ==
    {surfaceNode.P[j].id : j \in {k \in 1..Len(surfaceNode.P) :
                                      parseCoords(surfaceNode.P[k].text) # Null}}

\* a face that is not flagged invisible, names exactly three ids, all of them
\* in the point table
GoodFace(surfaceNode, F) ==
    /\ ~("i" \in DOMAIN F.attrs /\ F.attrs["i"] = "1")
    /\ Len(Tokens(F.text)) = 3
    /\ \A j \in 1..3 : Tokens(F.text)[j] \in TableIds(surfaceNode)

GoodFaces(surfaceNode) ==
    {k \in 1..Len(surfaceNode.F) : GoodFace(surfaceNode, surfaceNode.F[k])}

\* the mesh the latest operation made
LastMesh == meshes[Len(meshes)]

\* C21: the mesh of a surface has nine position components for every face
\* that is not flagged invisible, names exactly three ids and finds all three
\* in the point table, and none for any other face.
C21_NineComponentsPerGoodFace ==
    ret.op = "createSurfaceMesh" =>
        Len(LastMesh.vertexArray) = 9 * Cardinality(GoodFaces(ret.args[1]))

\* four points and two good faces gave 18 components
C21_Witness ==
    /\ ret.op = "createSurfaceMesh"
    /\ ret.args[1].P = PFour
    /\ ret.args[1].F = <<FOk, FDangling, FOk2>>
    /\ Len(LastMesh.vertexArray) = 18

\* a point as the claim reads its text: nothing when a token is not a number,
\* (a, b, 0) for two tokens, the numbers as they are otherwise
KeptAs(text) ==
    LET nums == [j \in 1..Len(Tokens(text)) |-> Number(Tokens(text)[j])]
    IN  IF \E j \in 1..Len(nums) : nums[j] = NaN THEN <<>>
        ELSE IF Len(nums) = 2 THEN << <<nums[1], nums[2], 0>> >>
        ELSE <<nums>>

RECURSIVE KeptPoints(_, _)
KeptPoints(P, k) == IF k = 0 THEN <<>> ELSE KeptPoints(P, k - 1) \o KeptAs(P[k].text)

\* C22: rawPoints holds, in document order, (a, b, 0) for a point of two
\* numeric tokens and the three numbers of a point of three; a point with a
\* token that is not a number is in neither rawPoints nor the point table (a
\* face that names it pushes no vertex, unless another point of its id is
\* kept).
C22_PointParsing ==
    ret.op = "createSurfaceMesh" =>
        /\ ret.val.rawPoints = KeptPoints(ret.args[1].P, Len(ret.args[1].P))
        /\ \A k \in 1..Len(ret.args[1].P) :
              (/\ KeptAs(ret.args[1].P[k].text) = <<>>
               /\ \A j \in 1..Len(ret.args[1].P) :
                     ret.args[1].P[j].id = ret.args[1].P[k].id =>
                         KeptAs(ret.args[1].P[j].text) = <<>>) =>
                  /\ ret.args[1].P[k].id \notin TableIds(ret.args[1])
                  /\ \A f \in GoodFaces(ret.args[1]) :
                        \A j \in 1..3 : Tokens(ret.args[1].F[f].text)[j] # ret.args[1].P[k].id

\* the surface with "10 20", "a b c" and two three-token points kept three
\* points, the first as (10, 20, 0), and skipped the face that names the
\* dropped point
C22_Witness ==
    /\ ret.op = "createSurfaceMesh"
    /\ ret.args[1].P = PMixed
    /\ ret.args[1].F = <<FDropped, FOk>>
    /\ ret.val.rawPoints = << <<10, 20, 0>>, <<1, 2, 3>>, <<4, 4, 6>> >>
    /\ Len(LastMesh.vertexArray) = 9

\* the point table entry of an id (the last point of that id that parsed)
PointOf(surfaceNode, id) ==
    MapGet(BuildPointsMap(ValidPoints(surfaceNode.P, Len(surfaceNode.P)),
                          Len(ValidPoints(surfaceNode.P, Len(surfaceNode.P)))), id)

\* the raw points of the emitted vertices, in emission order
RECURSIVE EmittedPoints(_, _)
EmittedPoints(surfaceNode, k) ==
    IF k = 0 THEN <<>>
    ELSE EmittedPoints(surfaceNode, k - 1) \o
         (IF k \in GoodFaces(surfaceNode)
          THEN [j \in 1..3 |-> PointOf(surfaceNode, Tokens(surfaceNode.F[k].text)[j])]
          ELSE <<>>)

\* the local centroid of the surface the latest createSurfaceMesh built
LastCentroid == Centroid(ret.val.rawPoints)

\* getOrigin() || zero, after the build
LastOrigin == IF origin # Null THEN origin ELSE [x |-> 0, y |-> 0, z |-> 0]

Finite(c) == c.x # NaN /\ c.y # NaN /\ c.z # NaN

\* the raw offset of the placement, (cx - origin.x, cy - origin.y, cz - origin.z)
LastOffset ==
    <<FSub(LastCentroid.x, LastOrigin.x), FSub(LastCentroid.y, LastOrigin.y),
      FSub(LastCentroid.z, LastOrigin.z)>>

\* the remap as written: render.x = raw.y, render.y = raw.z, render.z = raw.x,
\* then the sign of z flipped
EastingFirst(v) == <<v[2], v[3], IF v[1] = NaN THEN NaN ELSE -v[1]>>

\* C23: the mesh builder maps a raw vector (x northing, y easting, z
\* elevation) to render.x = raw.y, render.y = raw.z, render.z = raw.x with the
\* sign of z flipped, in the placement and in every vertex of the geometry.
C23_AxisRemap ==
    (ret.op = "createSurfaceMesh" /\ Finite(LastCentroid) /\ Finite(LastOrigin)) =>
        /\ LastMesh.position = EastingFirst(LastOffset)
        /\ \A k \in 1..(Len(LastMesh.vertexArray) \div 3) :
              Vertex(LastMesh.positions, k) =
                  EastingFirst(Vertex(Float32Array(LastMesh.vertexArray), k))

\* the remap of the builder: render (x, y, z) = raw (x, z, y)
R(v) == <<v[1], v[3], v[2]>>

Exact3(p) == <<Comp(p, 1), Comp(p, 2), Comp(p, 3)>>
Tuple3(c) == <<c.x, c.y, c.z>>

\* a - b as a real number, component by component (points of three numbers)
Minus(a, b) == <<a[1] - b[1], a[2] - b[2], a[3] - b[3]>>

HoldsUpToResidue(component, v) == component = v \/ (v = 0 /\ IsTiny(component))

\* the differences of vertex p are exact on raw axis j: neither subtraction
\* nor the store into the Float32Array rounds, and the buffer holds no residue
ExactOn(p, j, component) ==
    /\ Relative(p, LastCentroid)[j] = p[j] - Tuple3(LastCentroid)[j]
    /\ Fround(Relative(p, LastCentroid)[j]) = Relative(p, LastCentroid)[j]
    /\ LastOffset[j] = Tuple3(LastCentroid)[j] - Tuple3(LastOrigin)[j]
    /\ ~IsTiny(component)

\* the raw axis a render axis holds under R
RawAxis(j) == R(<<1, 2, 3>>)[j]

LoadCompleted == ret'.op = "file-uploaded" /\ status'[1] = "Loaded"

\* the surfaces of the document the step loaded
LoadedSurfaces == DocOf(ret'.args[1]).surfaces

\* getOrigin() || zero, after the step
OriginAfter == IF origin' # Null THEN origin' ELSE [x |-> 0, y |-> 0, z |-> 0]

\* C25: when a load completes in a session whose origin was unset, the origin
\* is the centroid of the raw points of the first surface of the document
\* that has a valid point, and every surface of the load, the first
\* included, is placed at its local centroid minus that origin (the
\* candidate is registered before the placement is computed).
C25_FirstSurfaceSetsOrigin ==
    [][(LoadCompleted /\ origin = Null /\ FirstWithPoints(LoadedSurfaces, 1) # <<>>) =>
          /\ origin' = Centroid(FirstWithPoints(LoadedSurfaces, 1))
          /\ Len(meshes') = Len(meshes) + Len(LoadedSurfaces)
          /\ \A i \in 1..Len(LoadedSurfaces) :
                meshes'[Len(meshes) + i].position =
                    R(<<FSub(Centroid(RawPointsOf(LoadedSurfaces[i])).x, OriginAfter.x),
                        FSub(Centroid(RawPointsOf(LoadedSurfaces[i])).y, OriginAfter.y),
                        FSub(Centroid(RawPointsOf(LoadedSurfaces[i])).z, OriginAfter.z)>>)]_vars

\* c.xml loaded first in the session: its first surface has no valid point,
\* its second has (10, 2, 0) and (2, 10, 4) and became the origin, at which
\* it is placed
C25_Witness ==
    /\ ret.op = "file-uploaded" /\ ret.args = <<"c.xml">>
    /\ nextFileId = 1 /\ status[1] = "Loaded"
    /\ origin = [x |-> 6, y |-> 6, z |-> 2]
    /\ Len(meshes) = 2
    /\ meshes[1].position = <<NaN, NaN, NaN>>
    /\ meshes[2].position = <<0, 0, 0>>

\* the surfaces of the loaded document that have no valid point
EmptySurfaces == {i \in 1..Len(LoadedSurfaces) : RawPointsOf(LoadedSurfaces[i]) = <<>>}

BBoxKeys == {"Easting Range", "Northing Range", "Elevation Range"}

\* the events of the step at which an empty list was offered as origin
\* candidate
EmptyCandidates ==
    {k \in 1..Len(trace') : IsCall(trace'[k], "initOriginFromPoints") /\ trace'[k].args = << <<>> >>}

\* C26: a surface without a valid point does not fail the load; its mesh has
\* no vertex, the origin is as it was when its points were offered (nothing
\* is set, no listener is notified), and its object has no bounding-box
\* metadata, computeWorldBBox of its points being null.
C26_EmptySurface ==
    [][(ret'.op = "file-uploaded" /\ EmptySurfaces # {}) =>
          /\ status'[1] = "Loaded"
          /\ Len(meshes') = Len(meshes) + Len(LoadedSurfaces)
          /\ Len(ObjectsOf(files'[Len(files')])) = Len(LoadedSurfaces)
          /\ Cardinality(EmptyCandidates) = Cardinality(EmptySurfaces)
          /\ \A k \in EmptyCandidates :
                /\ k < Len(trace')
                /\ trace'[k + 1].ev \in {"call", "return"}
                /\ trace'[k + 1].ev = "call" => trace'[k + 1].hasOrigin = trace'[k].hasOrigin
          /\ \A i \in EmptySurfaces :
                /\ meshes'[Len(meshes) + i].vertexArray = <<>>
                /\ meshes'[Len(meshes) + i].positions = <<>>
                /\ computeWorldBBox(RawPointsOf(LoadedSurfaces[i])) = Null
                /\ DOMAIN ObjectsOf(files'[Len(files')])[i].metadata \cap BBoxKeys = {}]_vars

\* c.xml was loaded: the mesh of its first surface, whose only point does
\* not parse, has no vertex, and the object has the four fixed keys only
C26_Witness ==
    /\ ret.op = "file-uploaded" /\ ret.args = <<"c.xml">>
    /\ status[1] = "Loaded"
    /\ Len(files) >= 1 /\ Len(meshes) >= 2
    /\ Len(ObjectsOf(files[Len(files)])) = 2
    /\ meshes[ObjectsOf(files[Len(files)])[1].mesh].vertexArray = <<>>
    /\ DOMAIN ObjectsOf(files[Len(files)])[1].metadata =
           {"description", "Surface Type", "vertices", "triangles"}
    /\ BBoxKeys \subseteq DOMAIN ObjectsOf(files[Len(files)])[2].metadata

\* the least and the greatest number of a non-empty set
MinOf(S) == CHOOSE m \in S : \A v \in S : m <= v
MaxOf(S) == CHOOSE m \in S : \A v \in S : m >= v

\* the numbers the points of a list have on an axis
OnAxis(P, a) == {P[k][a] : k \in 1..Len(P)}

\* C27: for a non-empty list of points of three numbers, whatever the origin
\* is, computeWorldBBox returns the component-wise minimum and maximum of the
\* points as given, and as centroid the Number nearest to the midpoint of
\* the two, which lies between them on every axis.
C27_BBox ==
    (ret.op = "computeWorldBBox" /\ ret.args[1] # <<>>) =>
        /\ ret.val # Null
        /\ \A a \in 1..3 :
              /\ Tuple3(ret.val.min)[a] = MinOf(OnAxis(ret.args[1], a))
              /\ Tuple3(ret.val.max)[a] = MaxOf(OnAxis(ret.args[1], a))
              /\ Tuple3(ret.val.centroid)[a] =
                     RoundQ(MinOf(OnAxis(ret.args[1], a)) + MaxOf(OnAxis(ret.args[1], a)), 2)
              /\ Tuple3(ret.val.min)[a] <= Tuple3(ret.val.centroid)[a]
              /\ Tuple3(ret.val.centroid)[a] <= Tuple3(ret.val.max)[a]

\* the example of the claim, computed while an origin away from it is set
C27_Witness ==
    /\ ret.op = "computeWorldBBox"
    /\ ret.args[1] = << <<0, 0, 0>>, <<10, 0, 0>>, <<0, 10, 0>> >>
    /\ origin = [x |-> 10, y |-> 10, z |-> 1]
    /\ ret.val = [min |-> [x |-> 0, y |-> 0, z |-> 0],
                  max |-> [x |-> 10, y |-> 10, z |-> 0],
                  centroid |-> [x |-> 5, y |-> 5, z |-> 0]]

\* the keys of the CRS map
CrsKeys == {crsEntries[i].key : i \in 1..Len(crsEntries)}

\* the latest action was a load that ran to the end or a delete
LoadOrDelete ==
    \/ ret.op = "file-uploaded" /\ status[1] = "Loaded"
    \/ ret.op \in {"tree-delete click", "delete-btn-ok click"}

\* C28: after every completed load or delete, the keys of the CRS map are
\* the ids of the files in the registry, one entry for each file, also when
\* files of the same name are loaded.
C28_CrsKeysAreFileIds ==
    LoadOrDelete =>
        /\ CrsKeys = FileIds(files)
        /\ Len(crsEntries) = Len(files)

\* three files were loaded and one was deleted; the two that are left have
\* the same name and an entry each
C28_Witness ==
    /\ ret.op \in {"tree-delete click", "delete-btn-ok click"}
    /\ nextFileId = 3
    /\ Len(files) = 2
    /\ files[1].name = files[2].name
    /\ Cardinality(CrsKeys) = 2

\* the meshes the objects of the registry own
RECURSIVE OwnedMeshes(_, _)
OwnedMeshes(fs, k) ==
    IF k = 0 THEN {}
    ELSE OwnedMeshes(fs, k - 1) \cup
         {ObjectsOf(fs[k])[i].mesh : i \in 1..Len(ObjectsOf(fs[k]))}

\* C29: after every completed load or delete, the surface meshes in the
\* scene are the meshes owned by the objects of the registry, and the meshes
\* of deleted files (the meshes no object owns any more) have their
\* geometry and material disposed.
C29_SceneMatchesRegistry ==
    LoadOrDelete =>
        /\ scene = OwnedMeshes(files, Len(files))
        /\ \A h \in 1..Len(meshes) :
              h \notin OwnedMeshes(files, Len(files)) =>
                  meshes[h].geometryDisposed /\ meshes[h].materialDisposed

\* a file with two surfaces was deleted while another file is loaded: its
\* meshes are out of the scene and disposed, the other file's mesh is in it
C29_Witness ==
    /\ ret.op \in {"tree-delete click", "delete-btn-ok click"}
    /\ Len(files) = 1
    /\ Len(meshes) = 3
    /\ Cardinality(scene) = 1
    /\ Cardinality({h \in 1..Len(meshes) : meshes[h].geometryDisposed}) = 2

\* the file-level fields that come from one attribute: key, element, attribute
FileFields ==
    {<<"LandXML Version", "root", "version">>,
     <<"CRS", "crs", "desc">>,
     <<"Horizontal Datum", "crs", "horizontalDatum">>,
     <<"Vertical Datum", "crs", "verticalDatum">>,
     <<"Datum", "crs", "datum">>,
     <<"Coordinate System", "crs", "horizontalCoordinateSystemName">>,
     <<"Rotation Angle", "crs", "rotationAngle">>,
     <<"Source Path", "project", "name">>,
     <<"Project Desc", "project", "desc">>,
     <<"Linear Unit", "units", "linearUnit">>,
     <<"Area Unit", "units", "areaUnit">>,
     <<"Volume Unit", "units", "volumeUnit">>,
     <<"Angular Unit", "units", "angularUnit">>}

\* the fields joined from two attributes of one element
JoinedFields == {<<"Date", "root", "date", "time">>, <<"Application", "app", "name", "version">>}

\* the document has the attribute; it has it with a value that is not empty
Present(el, a) == el # Null /\ a \in DOMAIN el.attrs
NonEmpty(el, a) == el # Null /\ a \in DOMAIN el.attrs /\ el.attrs[a] # ""

\* the original statement of C30: a key is in the result exactly when its
\* attribute is in the document, for the file and for every surface, and the
\* parse does not throw
C30_KeyIffAttribute ==
    ret.op = "loadLandXML" =>
        /\ ~ret.val.threw
        /\ \A f \in FileFields :
              f[1] \in DOMAIN ret.val.fileMeta <=> Present(ret.args[1][f[2]], f[3])
        /\ \A f \in JoinedFields :
              f[1] \in DOMAIN ret.val.fileMeta <=>
                  (Present(ret.args[1][f[2]], f[3]) \/ Present(ret.args[1][f[2]], f[4]))
        /\ \A i \in 1..Len(ret.val.objects) :
              /\ "description" \in DOMAIN ret.val.objects[i].metadata <=>
                     Present(ret.args[1].surfaces[i], "desc")
              /\ "Surface Type" \in DOMAIN ret.val.objects[i].metadata <=>
                     Present(ret.args[1].surfaces[i], "surfType")

\* the value of a surface attribute, the empty string when it is missing
ValueOrEmpty(el, a) == IF NonEmpty(el, a) THEN el.attrs[a] ELSE ""

\* C30 (amended): the parse does not throw on a missing attribute or
\* element; a file-level key is in the result exactly when its attribute (for
\* Date and Application: one of its two attributes) is in the document with a
\* value that is not empty; every surface has the keys description and
\* Surface Type, holding the attribute's value or the empty string, and
\* vertices and triangles, and the three range keys exactly when it has a
\* valid point.
C30_KeyIffAttributeNotEmpty ==
    ret.op = "loadLandXML" =>
        /\ ~ret.val.threw
        /\ Len(ret.val.objects) = Len(ret.args[1].surfaces)
        /\ DOMAIN ret.val.fileMeta \subseteq
               {f[1] : f \in FileFields} \cup {f[1] : f \in JoinedFields}
        /\ \A f \in FileFields :
              /\ f[1] \in DOMAIN ret.val.fileMeta <=> NonEmpty(ret.args[1][f[2]], f[3])
              /\ f[1] \in DOMAIN ret.val.fileMeta =>
                     ret.val.fileMeta[f[1]] = ret.args[1][f[2]].attrs[f[3]]
        /\ \A f \in JoinedFields :
              f[1] \in DOMAIN ret.val.fileMeta <=>
                  (NonEmpty(ret.args[1][f[2]], f[3]) \/ NonEmpty(ret.args[1][f[2]], f[4]))
        /\ \A i \in 1..Len(ret.val.objects) :
              /\ DOMAIN ret.val.objects[i].metadata =
                     {"description", "Surface Type", "vertices", "triangles"} \cup
                     (IF RawPointsOf(ret.args[1].surfaces[i]) # <<>> THEN BBoxKeys ELSE {})
              /\ ret.val.objects[i].metadata["description"] =
                     <<ValueOrEmpty(ret.args[1].surfaces[i], "desc")>>
              /\ ret.val.objects[i].metadata["Surface Type"] =
                     <<ValueOrEmpty(ret.args[1].surfaces[i], "surfType")>>

\* the document with empty attributes was parsed: no key for the empty
\* version, CRS desc and linear unit nor for the Application, keys for the
\* time, the datum and the area unit, and an empty description
C30_Witness ==
    /\ ret.op = "loadLandXML"
    /\ ret.args[1] = DocD
    /\ ~ret.val.threw
    /\ DOMAIN ret.val.fileMeta = {"Date", "Datum", "Area Unit"}
    /\ ret.val.objects[1].metadata["description"] = <<"">>
    /\ BBoxKeys \subseteq DOMAIN ret.val.objects[1].metadata

\* C31: the depth-bias attributes of the surfaces of a session never decrease
\* in load order (meshes are kept in the order they were made), also from
\* the last surface of one file to the first surface of the next, and the
\* two attributes of a surface are the same number.
C31_DepthBiasMonotonic ==
    /\ \A h \in 1..Len(meshes) :
          meshes[h].polygonOffsetFactor = meshes[h].polygonOffsetUnits
    /\ \A g \in 1..Len(meshes) : \A h \in 1..Len(meshes) :
          g < h => /\ meshes[g].polygonOffsetFactor <= meshes[h].polygonOffsetFactor
                   /\ meshes[g].polygonOffsetUnits <= meshes[h].polygonOffsetUnits

\* C33: a load in which loadLandXML throws while its surfaces are being
\* processed leaves the origin as it was before the load.
C33_FailedLoadKeepsOrigin ==
    [][(ret'.op = "file-uploaded" /\ LoadThrew(trace') /\ CalledIn(trace', "createSurfaceMesh"))
          => origin' = origin]_vars

\* the latest action was a load or a delete that ran to its end
CompletedLoadOrDelete ==
    \/ ret.op = "file-uploaded" /\ status[1] = "Loaded"
    \/ ret.op \in {"tree-delete click", "delete-btn-ok click"} /\ CalledIn(trace, "removeFile")

\* C32: after a completed load or delete with no file registered, the origin
\* is unset and the CRS map is empty (getCRSName is null); and no action
\* ends with an origin set while no file is registered.
C32_NoFilesNoOrigin ==
    /\ (CompletedLoadOrDelete /\ Len(files) = 0) =>
            /\ origin = Null
            /\ crsEntries = <<>>
            /\ getCRSName(Cur) = null
    /\ Len(files) = 0 => origin = Null

\* C34: every point parseCoords accepted, in rawPoints and in the point
\* table, has exactly three components, all of them numbers, whatever the
\* number of tokens of its text.
C34_ThreeComponents ==
    ret.op = "createSurfaceMesh" =>
        /\ \A k \in 1..Len(ret.val.rawPoints) :
              /\ Len(ret.val.rawPoints[k]) = 3
              /\ \A j \in 1..3 : ret.val.rawPoints[k][j] # NaN
        /\ \A id \in TableIds(ret.args[1]) : Len(PointOf(ret.args[1], id)) = 3

\* C35: the placement of every mesh createSurfaceMesh returns has three
\* components that are numbers, for a surface without a valid point too,
\* with the origin set or unset.
C35_NumericPlacement ==
    ret.op = "createSurfaceMesh" =>
        /\ Len(LastMesh.position) = 3
        /\ \A j \in 1..3 : LastMesh.position[j] # NaN

\* C36: the surface that establishes the origin (it has a valid point and is
\* built while the origin is unset) is placed at exactly (0, 0, 0).
C36_OriginSurfaceAtZero ==
    [][(ret'.op = "createSurfaceMesh" /\ origin = Null /\ ret'.val.rawPoints # <<>>) =>
          /\ origin' = Centroid(ret'.val.rawPoints)
          /\ meshes'[Len(meshes')].position = <<0, 0, 0>>]_vars

\* the P entries of a surface that parse, up to the k-th
ValidEntries(P, k) == {i \in 1..k : parseCoords(P[i].text) # Null}

\* the coordinates of the last entry of an id that parses
LastOfId(P, id) ==
    parseCoords(P[MaxOf({i \in ValidEntries(P, Len(P)) : P[i].id = id})].text)

\* the ids the emitted vertices were built from, in emission order
RECURSIVE EmittedIds(_, _)
EmittedIds(surfaceNode, k) ==
    IF k = 0 THEN <<>>
    ELSE EmittedIds(surfaceNode, k - 1) \o
         (IF k \in GoodFaces(surfaceNode) THEN Tokens(surfaceNode.F[k].text) ELSE <<>>)

\* some id is the id of two entries that parse
HasDuplicateId(P) ==
    \E i \in ValidEntries(P, Len(P)) : \E j \in ValidEntries(P, Len(P)) :
        i < j /\ P[i].id = P[j].id

\* C37: rawPoints holds every P entry that parses, duplicates of an id
\* included (so the local centroid and an origin taken from the surface are
\* means over all of them), and every vertex a face pushes for an id is built
\* from the last entry of that id that parses.
C37_DuplicateIds ==
    ret.op = "createSurfaceMesh" =>
        /\ Len(ret.val.rawPoints) = Cardinality(ValidEntries(ret.args[1].P, Len(ret.args[1].P)))
        /\ \A i \in ValidEntries(ret.args[1].P, Len(ret.args[1].P)) :
              ret.val.rawPoints[Cardinality(ValidEntries(ret.args[1].P, i))]
                  = parseCoords(ret.args[1].P[i].text)
        /\ (Len(meshes) = 1 /\ ret.val.rawPoints # <<>>) => origin = Centroid(ret.val.rawPoints)
        /\ Len(LastMesh.vertexArray) = 3 * Len(EmittedIds(ret.args[1], Len(ret.args[1].F)))
        /\ \A k \in 1..Len(EmittedIds(ret.args[1], Len(ret.args[1].F))) :
              Vertex(LastMesh.vertexArray, k) =
                  Relative(LastOfId(ret.args[1].P, EmittedIds(ret.args[1], Len(ret.args[1].F))[k]),
                           Centroid(ret.val.rawPoints))

\* the surface with two entries of the id 3: four raw points, the origin
\* their mean (4, 4, 2), and the vertex of id 3 built from (8, 8, 4)
C37_Witness ==
    /\ ret.op = "createSurfaceMesh"
    /\ ret.args[1].P = PDup /\ ret.args[1].F = <<FOk>>
    /\ HasDuplicateId(ret.args[1].P)
    /\ Len(meshes) = 1
    /\ Len(ret.val.rawPoints) = 4
    /\ origin = [x |-> 4, y |-> 4, z |-> 2]
    /\ Vertex(LastMesh.vertexArray, 2) = <<4, 4, 2>>

\* the places of the list whose file has another id than the one removed
OtherFiles == {i \in 1..Len(files) : files[i].id # ret'.args[1]}

\* C38: removeFile leaves the files of other ids as they are (order, ids,
\* names, groups, objects, visibility flags) and takes out the file of the
\* id; with an id that is not registered the list is as before; the listener
\* is called once, with the new list, and no mesh, scene, CRS or origin
\* state changes.
C38_RemoveFileFrame ==
    [][ret'.op = "removeFile" =>
          /\ Len(files') = Cardinality(OtherFiles)
          /\ \A i \in OtherFiles : files'[Cardinality({j \in OtherFiles : j <= i})] = files[i]
          /\ ret'.args[1] \notin FileIds(files) => files' = files
          /\ Len(SelectSeq(trace', LAMBDA e : e.ev = "storeNotify")) = 1
          /\ SelectSeq(trace', LAMBDA e : e.ev = "storeNotify")[1].files = files'
          /\ UNCHANGED <<meshes, scene, origin, crsEntries, nextFileId, nextObjId>>]_vars

\* the first of two files was removed; the second, with an object toggled
\* off before, is what is left
C38_Witness ==
    /\ ret.op = "removeFile" /\ ret.args = <<FileId(0)>>
    /\ nextFileId = 2
    /\ Len(files) = 1 /\ files[1].id = FileId(1)
    /\ \E i \in 1..Len(ObjectsOf(files[1])) : ~ObjectsOf(files[1])[i].visible
    /\ Len(StoreDeliveries) = 1

\* the places of the log of the step where fn is called with the file id
CallsWith(tr, fn, fileId) ==
    {i \in 1..Len(tr) : IsCall(tr[i], fn) /\ tr[i].args = <<fileId>>}

\* the places of the log of the step where fn is called at all
CallsOf(tr, fn) == {i \in 1..Len(tr) : IsCall(tr[i], fn)}

\* no registry, scene, CRS or origin state changes in the step, and neither
\* the delete callback nor removeFile is called
NothingDeleted ==
    /\ UNCHANGED <<files, scene, meshes, crsEntries, origin>>
    /\ CallsOf(trace', "onDelete") = {}
    /\ CallsOf(trace', "removeFile") = {}

\* C39: with the confirmation enabled (the setting is anything but false) a
\* click on a file's delete button opens the dialog for that file and changes
\* no registry, scene, CRS or origin state; cancelling or dismissing the
\* dialog closes it and changes none of that state; confirming closes it and
\* calls the delete callback once and then removeFile once, both with the
\* file id of the dialog, after which the file is not in the registry.
C39_DeleteConfirmation ==
    [][/\ (ret'.op = "tree-delete click" /\ confirmDelete # FALSE) =>
            /\ NothingDeleted
            /\ dialog' = ret'.args[1]
       /\ ret'.op = "delete-btn-cancel click" =>
            /\ NothingDeleted
            /\ dialog' = Null
       /\ ret'.op = "delete-btn-ok click" =>
            /\ ret'.args = <<dialog>>
            /\ dialog' = Null
            /\ CallsOf(trace', "onDelete") = CallsWith(trace', "onDelete", dialog)
            /\ CallsOf(trace', "removeFile") = CallsWith(trace', "removeFile", dialog)
            /\ Cardinality(CallsOf(trace', "onDelete")) = 1
            /\ Cardinality(CallsOf(trace', "removeFile")) = 1
            /\ \A i \in CallsOf(trace', "onDelete") :
                   \A j \in CallsOf(trace', "removeFile") : i < j
            /\ dialog \notin FileIds(files')]_vars

\* with the confirmation enabled, the dialog of the second of two files was
\* confirmed: the callback and removeFile ran, the first file is what is left
C39_Witness ==
    /\ ret.op = "delete-btn-ok click" /\ ret.args = <<FileId(1)>>
    /\ confirmDelete # FALSE
    /\ dialog = Null
    /\ CallsWith(trace, "onDelete", FileId(1)) # {}
    /\ CallsWith(trace, "removeFile", FileId(1)) # {}
    /\ FileIds(files) = {FileId(0)}

====
